---------------------------- MODULE Spec2Model ----------------------------
(***************************************************************************)
(* A model of the document engine of the forms backend:                   *)
(*   backend/app/services/template.py  (schema extraction)                *)
(*   backend/app/services/document.py  (anchor resolution and fill)       *)
(*                                                                         *)
(* Text is a sequence of atoms.  An atom is a TLA+ string: a single       *)
(* character ("N", ":", "_", " "), or a word or phrase that every regular  *)
(* expression and search of the code treats as a block of ordinary         *)
(* characters (it holds no ".", ":", "?", "_", no checkbox glyph and no    *)
(* leading or trailing blank).  Phrases are written in lower case, the     *)
(* capitalised atoms are listed in LowerAtom.                              *)
(***************************************************************************)
EXTENDS Integers, Sequences, FiniteSets, TLC

VARIABLES
    template,   \* content of the file at template_path
    outfile,    \* the file at output_path: [exists, doc]
    doc,        \* the python-docx Document held in memory
    schema,     \* the template schema: [sections, fields]
    data,       \* the (nested) form data map handed to _fill_docx
    flat,       \* flat_data, the dot-joined view of data
    pc,         \* position of the running operation
    idx,        \* position of the generic per-field loop in flat_data
    handled,    \* field ids whose composite pre-pass wrote to the document
    written,    \* field ids the generic loop dispatched to a writer
    call,       \* arguments of a directly invoked helper, or the last service call
    db,         \* the database rows: form, form data, versions, review actions, events
    files,      \* the paths under generated_dir that hold a file
    clock,      \* datetime.utcnow(), in whole seconds
    procs       \* the running invocations of generate_documents

vars == <<template, outfile, doc, schema, data, flat, pc, idx, handled, written, call,
          db, files, clock, procs>>

----------------------------------------------------------------------------
(* Optional values: None is the empty sequence, Some(x) a singleton.       *)

None == <<>>
Some(x) == <<x>>
IsNone(o) == o = <<>>
GetOr(o, dflt) == IF o = <<>> THEN dflt ELSE o[1]

Min(a, b) == IF a < b THEN a ELSE b
Max(a, b) == IF a > b THEN a ELSE b

----------------------------------------------------------------------------
(* Atoms with a special meaning.                                           *)

ENSP == "<ensp>"          \* U+2002, the en-space placeholder of text form fields
GlyphUnchecked == "<ballot box>"          \* U+2610
GlyphChecked == "<ballot box with check>" \* U+2611
GlyphCheck == "<check mark>"              \* U+2713
GlyphWhiteSquare == "<white square>"      \* U+25A1
GlyphBlackSquare == "<black square>"      \* U+25A0
GlyphMediumWhite == "<white medium square>"   \* U+25FB
GlyphMediumBlack == "<black medium square>"   \* U+25FC
BadEscape == "\\d"        \* a backslash followed by a letter that re rejects in a template

CheckboxGlyphs ==
    {GlyphUnchecked, GlyphChecked, GlyphCheck, GlyphWhiteSquare, GlyphBlackSquare,
     GlyphMediumWhite, GlyphMediumBlack}

UpperChars == <<"A","B","C","D","E","F","G","H","I","J","K","L","M",
                "N","O","P","Q","R","S","T","U","V","W","X","Y","Z">>
LowerChars == <<"a","b","c","d","e","f","g","h","i","j","k","l","m",
                "n","o","p","q","r","s","t","u","v","w","x","y","z">>
Digits == {"0","1","2","3","4","5","6","7","8","9"}

IsUpper(a) == \E i \in 1..Len(UpperChars) : UpperChars[i] = a
IsLowerChar(a) == \E i \in 1..Len(LowerChars) : LowerChars[i] = a

\* the words and phrases with capital letters, and their lower case
Capitalised ==
    << <<"No", "no">>, <<"Yes", "yes">>, <<"Other", "other">>, <<"Ext", "ext">>,
       <<"Email", "email">>, <<"SCRO", "scro">>, <<"IBC", "ibc">>,
       <<"Local investigator", "local investigator">>,
       <<"Cooperative group", "cooperative group">>,
       <<"External sponsor", "external sponsor">>,
       <<"PI/collaborators will recruit", "pi/collaborators will recruit">>,
       <<"Dear Patient", "dear patient">>,
       <<"If intramural, what", "if intramural, what">>,
       <<"If extramural, what is the", "if extramural, what is the">>,
       <<"Is the study", "is the study">>,
       <<"Provide IND#", "provide ind#">>, <<"IDE#", "ide#">>,
       <<"Check appropriately", "check appropriately">>,
       <<"Phase I", "phase i">>, <<"Phase II", "phase ii">>, <<"Phase III", "phase iii">>,
       <<"Phase IV", "phase iv">>, <<"Emergency Use", "emergency use">>,
       <<"This use must be approved by the California State Research Advisory Panel",
         "this use must be approved by the california state research advisory panel">>,
       <<"Indicate whether", "indicate whether">>,
       <<"Table Data", "table data">>, <<"Options", "options">>,
       <<"True", "true">>, <<"False", "false">>, <<"None", "none">> >>

\* str.lower() on one atom
LowerAtom(a) ==
    IF IsUpper(a)
    THEN LowerChars[CHOOSE i \in 1..Len(UpperChars) : UpperChars[i] = a]
    ELSE IF \E i \in 1..Len(Capitalised) : Capitalised[i][1] = a
    THEN Capitalised[CHOOSE i \in 1..Len(Capitalised) : Capitalised[i][1] = a][2]
    ELSE a

\* str.upper() on one atom
UpperAtom(a) ==
    IF IsLowerChar(a)
    THEN UpperChars[CHOOSE i \in 1..Len(LowerChars) : LowerChars[i] = a]
    ELSE a

\* \s of the re module, str.strip() and str.rstrip()
IsWs(a) == a \in {" ", ENSP, "\n"}

----------------------------------------------------------------------------
(* Text helpers.                                                           *)

Lower(t) == [i \in 1..Len(t) |-> LowerAtom(t[i])]

ConcatAll(ss) ==
    LET RECURSIVE go(_)
        go(i) == IF i > Len(ss) THEN <<>> ELSE ss[i] \o go(i + 1)
    IN go(1)

MatchAt(t, n, i) ==
    /\ i + Len(n) - 1 <= Len(t)
    /\ \A j \in 1..Len(n) : t[i + j - 1] = n[j]

\* n in t  (the empty needle is in every text)
Contains(t, n) == \E i \in 1..(Len(t) + 1) : MatchAt(t, n, i)

\* n.lower() in t.lower()
ContainsCI(t, n) == Contains(Lower(t), Lower(n))

StartsWith(t, n) == MatchAt(t, n, 1)

EndsWith(t, n) == Len(n) <= Len(t) /\ MatchAt(t, n, Len(t) - Len(n) + 1)

\* position of the first occurrence of n in t, 0 when there is none
Find(t, n) ==
    IF Contains(t, n)
    THEN CHOOSE i \in 1..(Len(t) + 1) :
            MatchAt(t, n, i) /\ \A j \in 1..(i - 1) : ~MatchAt(t, n, j)
    ELSE 0

\* str.replace(old, new) with a non-empty old; count = 0 replaces every occurrence
ReplaceN(t, old, new, count) ==
    LET RECURSIVE go(_, _)
        go(i, left) ==
            IF i > Len(t) THEN <<>>
            ELSE IF left # 0 /\ MatchAt(t, old, i)
                 THEN new \o go(i + Len(old), left - 1)
                 ELSE <<t[i]>> \o go(i + 1, left)
    IN go(1, IF count = 0 THEN Len(t) + 1 ELSE count)

ReplaceAll(t, old, new) == ReplaceN(t, old, new, 0)

\* number of trailing / leading whitespace atoms
TrailWs(t) ==
    LET RECURSIVE go(_)
        go(i) == IF i >= 1 /\ IsWs(t[i]) THEN 1 + go(i - 1) ELSE 0
    IN go(Len(t))

LeadWs(t) ==
    LET RECURSIVE go(_)
        go(i) == IF i <= Len(t) /\ IsWs(t[i]) THEN 1 + go(i + 1) ELSE 0
    IN go(1)

Rstrip(t) == SubSeq(t, 1, Len(t) - TrailWs(t))

Strip(t) == IF LeadWs(t) = Len(t) THEN <<>> ELSE SubSeq(t, LeadWs(t) + 1, Len(t) - TrailWs(t))

\* sep.join(parts)
Join(parts, sep) ==
    LET RECURSIVE go(_)
        go(i) == IF i > Len(parts) THEN <<>>
                 ELSE IF i = Len(parts) THEN parts[i]
                 ELSE parts[i] \o sep \o go(i + 1)
    IN go(1)

CommaSpace == <<",", " ">>


----------------------------------------------------------------------------
(* Values of the data map.  Every value is a record with the same fields;  *)
(* k tells the Python type: "str", "list" (of strings), "rows" (a list of  *)
(* row records), "bool", "dict" (a nested mapping) or "none".              *)

StrV(t) == [k |-> "str", s |-> t, l |-> <<>>, b |-> FALSE, d |-> <<>>]
ListV(l) == [k |-> "list", s |-> <<>>, l |-> l, b |-> FALSE, d |-> <<>>]
RowsV(r) == [k |-> "rows", s |-> <<>>, l |-> r, b |-> FALSE, d |-> <<>>]
BoolV(b) == [k |-> "bool", s |-> <<>>, l |-> <<>>, b |-> b, d |-> <<>>]
DictV(d) == [k |-> "dict", s |-> <<>>, l |-> <<>>, b |-> FALSE, d |-> d]
NoneV == [k |-> "none", s |-> <<>>, l |-> <<>>, b |-> FALSE, d |-> <<>>]

\* a row record of a repeatable value; isdict is FALSE for an element that is no dict
RowDict(m) == [isdict |-> TRUE, m |-> m]
RowScalar == [isdict |-> FALSE, m |-> <<>>]

\* isinstance(value, list)
IsList(v) == v.k \in {"list", "rows"}

\* bool(value)
Truthy(v) ==
    CASE v.k = "str" -> v.s # <<>>
      [] v.k \in {"list", "rows"} -> v.l # <<>>
      [] v.k = "bool" -> v.b
      [] v.k = "dict" -> v.d # <<>>
      [] OTHER -> FALSE

\* str(value); the repr of a container is one opaque atom
Str(v) ==
    CASE v.k = "str" -> v.s
      [] v.k = "bool" -> IF v.b THEN <<"True">> ELSE <<"False">>
      [] v.k = "none" -> <<"None">>
      [] v.k = "list" -> <<"<repr of list>">>
      [] v.k = "rows" -> <<"<repr of list>">>
      [] OTHER -> <<"<repr of dict>">>

\* ", ".join(str(v) for v in value)
JoinList(v) ==
    IF v.k = "list" THEN Join(v.l, CommaSpace)
    ELSE Join([i \in 1..Len(v.l) |-> <<"<repr of dict>">>], CommaSpace)

\* a replacement template that re.sub refuses to compile
HasBadEscape(t) == \E i \in 1..Len(t) : t[i] = BadEscape

----------------------------------------------------------------------------
(* The document tree: paragraphs are sequences of runs; a run may carry a  *)
(* legacy FORMCHECKBOX (w:ffData/w:checkBox with w:default and, when set,  *)
(* w:checked).  A table is a sequence of rows, a row a sequence of cells,  *)
(* a cell a sequence of paragraphs.                                        *)

NoBox == [has |-> FALSE, dflt |-> "0", chk |-> "none"]
Box(dflt, chk) == [has |-> TRUE, dflt |-> dflt, chk |-> chk]

TextRun(t) == [t |-> t, box |-> NoBox, ul |-> FALSE]
ValueRun(t) == [t |-> t, box |-> NoBox, ul |-> TRUE]
BoxRun(dflt, chk) == [t |-> <<>>, box |-> Box(dflt, chk), ul |-> FALSE]

\* Paragraph.text
ParaText(p) == ConcatAll([i \in 1..Len(p) |-> p[i].t])

\* a paragraph of one plain run
P(t) == <<TextRun(t)>>

\* Paragraph.clear() followed by add_run(t)
Rewrite(t) == <<TextRun(t)>>

\* _Cell.text: the paragraphs joined by line breaks
CellText(c) == Join([i \in 1..Len(c) |-> ParaText(c[i])], <<"\n">>)

EmptyDoc == [paras |-> <<>>, tables |-> <<>>]

\* the result of a step on the document: ok is FALSE when the step raised
Ok(d) == [doc |-> d, ok |-> TRUE]
Raised(d) == [doc |-> d, ok |-> FALSE]

----------------------------------------------------------------------------
(* Schema fields and anchors.                                              *)

NoAnchorFields ==
    [paragraph_index |-> None, paragraph_contains |-> <<>>,
     table_index |-> None, row_index |-> None, column_index |-> None,
     start_row |-> None, append_to_label |-> FALSE, replace_pattern |-> <<>>,
     replace_with |-> <<>>, cell_paragraph_index |-> None,
     label_text |-> <<>>, header_text |-> <<>>]

Anchor(type, fields) ==
    [x \in {"type"} \cup DOMAIN NoAnchorFields |->
        IF x = "type" THEN type
        ELSE IF x \in DOMAIN fields THEN fields[x] ELSE NoAnchorFields[x]]

NoConfig == [columns |-> <<>>, column_mapping |-> None]

Field(id, type, label, section, anchor) ==
    [id |-> id, type |-> type, label |-> label, section_id |-> section,
     options |-> <<>>, anchor |-> anchor, repeatable_config |-> NoConfig, order |-> 0]

----------------------------------------------------------------------------
(* DocumentService._insert_value_in_paragraph                              *)

\* the value as the paragraph writer formats it
FormatParagraphValue(value, ftype) ==
    IF ftype = "checkbox"
    THEN IF IsList(value) THEN JoinList(value)
         ELSE IF Truthy(value) THEN <<GlyphChecked>> ELSE <<GlyphUnchecked>>
    ELSE IF IsList(value) THEN JoinList(value)
    ELSE IF Truthy(value) THEN Str(value) ELSE <<>>

\* re.search(r'(_+)', text): [s, e] are the first and last atom of the match, s = 0 for no match
UnderscoreMatch(text) ==
    LET s == Find(text, <<"_">>)
        RECURSIVE last(_)
        last(i) == IF i + 1 <= Len(text) /\ text[i + 1] = "_" THEN last(i + 1) ELSE i
    IN IF s = 0 THEN [s |-> 0, e |-> 0] ELSE [s |-> s, e |-> last(s)]

\* re.search(r'(<mark>\s*)$', text): the leftmost mark followed only by whitespace
TrailingMatch(text, mark) ==
    LET ok(i) == text[i] = mark /\ \A j \in (i + 1)..Len(text) : IsWs(text[j])
    IN IF \E i \in 1..Len(text) : ok(i)
       THEN [s |-> CHOOSE i \in 1..Len(text) : ok(i) /\ \A j \in 1..(i - 1) : ~ok(j),
             e |-> Len(text)]
       ELSE [s |-> 0, e |-> 0]

\* the first pattern of `patterns` that matches, in their order
FirstPatternMatch(text) ==
    LET u == UnderscoreMatch(text)
        c == TrailingMatch(text, ":")
        q == TrailingMatch(text, "?")
    IN IF u.s # 0 THEN u ELSE IF c.s # 0 THEN c ELSE q

\* InsertValueInParagraph without the blank it puts between label and value
InsertValueNoBlank(para, value, ftype) ==
    LET text == ParaText(para)
        fv == FormatParagraphValue(value, ftype)
        m == FirstPatternMatch(text)
        prefix == SubSeq(text, 1, m.s - 1)
        suffix == SubSeq(text, m.e + 1, Len(text))
    IN IF m.s # 0
       THEN IF HasBadEscape(fv)
            THEN [para |-> para, ok |-> FALSE]
            ELSE [para |-> (IF prefix # <<>> THEN <<TextRun(prefix)>> ELSE <<>>)
                           \o <<ValueRun(fv)>>
                           \o (IF suffix # <<>> THEN <<TextRun(suffix)>> ELSE <<>>),
                  ok |-> TRUE]
       ELSE [para |-> <<TextRun(Rstrip(text) \o <<" ", " ">>), ValueRun(fv)>>,
             ok |-> TRUE]

InsertValueInParagraph(para, value, ftype) ==
    LET text == ParaText(para)
        fv == FormatParagraphValue(value, ftype)
        m == FirstPatternMatch(text)
        prefix == SubSeq(text, 1, m.s - 1)
        suffix == SubSeq(text, m.e + 1, Len(text))
        spaced == IF EndsWith(prefix, <<" ">>) THEN prefix ELSE prefix \o <<" ">>
    IN IF m.s # 0
       THEN IF HasBadEscape(fv)
            THEN [para |-> para, ok |-> FALSE]    \* re.sub raises re.error
            ELSE [para |-> (IF prefix # <<>> THEN <<TextRun(spaced)>> ELSE <<>>)
                           \o <<ValueRun(fv)>>
                           \o (IF suffix # <<>> THEN <<TextRun(suffix)>> ELSE <<>>),
                  ok |-> TRUE]
       ELSE [para |-> <<TextRun(Rstrip(text) \o <<" ", " ">>), ValueRun(fv)>>,
             ok |-> TRUE]

----------------------------------------------------------------------------
(* DocumentService._fill_paragraph_anchor                                  *)

\* whether the loop stops at paragraph i (1-based here, i - 1 in the code)
ParagraphHit(d, anchor, i) ==
    \/ ~IsNone(anchor.paragraph_index) /\ i - 1 = anchor.paragraph_index[1]
    \/ /\ anchor.paragraph_contains # <<>>
       /\ ContainsCI(ParaText(d.paras[i]), anchor.paragraph_contains)

\* the paragraph the loop writes, 0 when it ends without writing
TargetParagraph(d, anchor) ==
    IF \E i \in 1..Len(d.paras) : ParagraphHit(d, anchor, i)
    THEN CHOOSE i \in 1..Len(d.paras) :
            ParagraphHit(d, anchor, i) /\ \A j \in 1..(i - 1) : ~ParagraphHit(d, anchor, j)
    ELSE 0

FillParagraphAnchor(d, anchor, value, fdef) ==
    LET i == TargetParagraph(d, anchor)
        r == InsertValueInParagraph(d.paras[i], value, fdef.type)
    IN IF i = 0 THEN Ok(d)
       ELSE [doc |-> [d EXCEPT !.paras[i] = r.para], ok |-> r.ok]

----------------------------------------------------------------------------
(* Tables.  ncols is the number of w:gridCol of the table grid, from which *)
(* Table.add_row() builds the cells of a new row.                          *)

Table(ncols, rows) == [ncols |-> ncols, rows |-> rows]

\* a cell as add_row() makes it: one empty paragraph
NewCell == << <<>> >>

\* Table.add_row()
AddRow(t) == [t EXCEPT !.rows = Append(t.rows, [j \in 1..t.ncols |-> NewCell])]

\* the write both table writers end with: the first paragraph of the cell is
\* cleared and receives one run, a cell without paragraphs gets its text set
SetCellText(c, t) == IF c # <<>> THEN [c EXCEPT ![1] = Rewrite(t)] ELSE <<Rewrite(t)>>

\* re.sub(pattern, repl, text) for a pattern without metacharacters
ReSub(pattern, repl, text) == ReplaceAll(text, pattern, repl)

ValuePlaceholder == "{value}"

----------------------------------------------------------------------------
(* DocumentService._fill_table_cell_anchor                                 *)

\* [v, ok]: the formatted value; ok is FALSE when dict.get raises on a list key
FormatCellValue(value, fdef) ==
    IF fdef.type = "checkbox"
    THEN [v |-> IF Truthy(value) THEN <<"Yes">> ELSE <<>>, ok |-> TRUE]
    ELSE IF fdef.type = "radio"
    THEN IF value.k \in {"list", "rows", "dict"}
         THEN [v |-> <<>>, ok |-> FALSE]      \* TypeError: unhashable type
         ELSE LET hits == {i \in 1..Len(fdef.options) :
                              value.k = "str" /\ fdef.options[i].value = value.s}
              IN [v |-> IF hits # {}
                        THEN fdef.options[CHOOSE i \in hits : \A j \in hits : j <= i].label
                        ELSE IF Truthy(value) THEN Str(value) ELSE <<>>,
                  ok |-> TRUE]
    ELSE IF IsList(value) THEN [v |-> JoinList(value), ok |-> TRUE]
    ELSE [v |-> IF Truthy(value) THEN Str(value) ELSE <<>>, ok |-> TRUE]

\* the cell the anchor resolves to: <<table, row, cell>> (1-based), <<>> when out of range
CellOfAnchor(d, anchor) ==
    LET ti == GetOr(anchor.table_index, 0)
        ri == GetOr(anchor.row_index, 0)
        ci == GetOr(anchor.column_index, 1)
    IN IF ti >= Len(d.tables) THEN <<>>
       ELSE IF ri >= Len(d.tables[ti + 1].rows) THEN <<>>
       ELSE IF ci >= Len(d.tables[ti + 1].rows[ri + 1]) THEN <<>>
       ELSE <<ti + 1, ri + 1, ci + 1>>

FillTableCellAnchor(d, anchor, value, fdef) ==
    LET at == CellOfAnchor(d, anchor)
        cell == d.tables[at[1]].rows[at[2]][at[3]]
        f == FormatCellValue(value, fdef)
        fv == f.v
        current_text == Strip(CellText(cell))
        cpi == anchor.cell_paragraph_index
        repl == ReplaceAll(anchor.replace_with, <<ValuePlaceholder>>, fv)
        put(c) == Ok([d EXCEPT !.tables[at[1]].rows[at[2]][at[3]] = c])
    IN IF at = <<>> THEN Ok(d)
       ELSE IF ~f.ok THEN Raised(d)
       ELSE IF ~IsNone(cpi) /\ fv # <<>>
       THEN IF cpi[1] < Len(cell) THEN put([cell EXCEPT ![cpi[1] + 1] = Rewrite(fv)])
            ELSE Ok(d)
       ELSE IF anchor.replace_pattern # <<>> /\ anchor.replace_with # <<>> /\ fv # <<>>
       THEN IF HasBadEscape(repl) THEN Raised(d)
            ELSE put(SetCellText(cell, ReSub(anchor.replace_pattern, repl, current_text)))
       ELSE IF anchor.append_to_label /\ current_text # <<>> /\ fv # <<>>
       THEN put(SetCellText(cell, current_text \o <<" ">> \o fv))
       ELSE put(SetCellText(cell, fv))

----------------------------------------------------------------------------
(* DocumentService._fill_table_anchor                                      *)

\* f"col_{col_idx}"
DefaultColumnIds == <<"col_0", "col_1", "col_2", "col_3", "col_4", "col_5", "col_6", "col_7">>

\* col_def.get("id", f"col_{col_idx}"), col_idx counted from 0
ColumnId(columns, col_idx) == GetOr(columns[col_idx + 1].id, DefaultColumnIds[col_idx + 1])

\* column_mapping[col_idx] when a mapping reaches that far, else col_idx
ActualColumn(config, col_idx) ==
    IF config.column_mapping # None /\ config.column_mapping[1] # <<>>
            /\ col_idx < Len(config.column_mapping[1])
    THEN config.column_mapping[1][col_idx + 1]
    ELSE col_idx

\* row_data.get(col_id, "") if isinstance(row_data, dict) else "", then str()
RowDatum(row_data, col_id) ==
    IF row_data.isdict /\ col_id \in DOMAIN row_data.m THEN row_data.m[col_id] ELSE <<>>

\* the inner loop: every column of the config is written into its cell of the row
FillRow(row, row_data, config) ==
    LET RECURSIVE go(_, _)
        go(r, col_idx) ==
            IF col_idx >= Len(config.columns) THEN r
            ELSE LET j == ActualColumn(config, col_idx)
                 IN IF j >= Len(r) THEN go(r, col_idx + 1)
                    ELSE go([r EXCEPT ![j + 1] =
                                SetCellText(r[j + 1],
                                    RowDatum(row_data, ColumnId(config.columns, col_idx)))],
                            col_idx + 1)
    IN go(row, 0)

\* FillRows with the element index used as the row index: start_row is ignored
FillRowsFromTop(t, start_row, value, config) ==
    LET RECURSIVE go(_, _)
        go(tb, row_idx) ==
            IF row_idx >= Len(value.l) THEN [t |-> tb, ok |-> TRUE]
            ELSE LET actual == row_idx
                     grown == IF actual >= Len(tb.rows) THEN AddRow(tb) ELSE tb
                 IN IF actual >= Len(grown.rows) THEN [t |-> grown, ok |-> FALSE]
                    ELSE go([grown EXCEPT !.rows[actual + 1] =
                                FillRow(grown.rows[actual + 1],
                                        IF value.k = "rows" THEN value.l[row_idx + 1]
                                        ELSE RowScalar,
                                        config)],
                            row_idx + 1)
    IN go(t, 0)

\* the outer loop over the value's elements, on table t: [t, ok], ok FALSE when
\* table.rows[actual_row_idx] raises IndexError
FillRows(t, start_row, value, config) ==
    LET RECURSIVE go(_, _)
        go(tb, row_idx) ==
            IF row_idx >= Len(value.l) THEN [t |-> tb, ok |-> TRUE]
            ELSE LET actual == start_row + row_idx
                     grown == IF actual >= Len(tb.rows) THEN AddRow(tb) ELSE tb
                 IN IF actual >= Len(grown.rows) THEN [t |-> grown, ok |-> FALSE]
                    ELSE go([grown EXCEPT !.rows[actual + 1] =
                                FillRow(grown.rows[actual + 1],
                                        IF value.k = "rows" THEN value.l[row_idx + 1]
                                        ELSE RowScalar,
                                        config)],
                            row_idx + 1)
    IN go(t, 0)

FillTableAnchor(d, anchor, value, fdef) ==
    LET ti == GetOr(anchor.table_index, 0)
        r == FillRows(d.tables[ti + 1], GetOr(anchor.start_row, 1), value,
                      fdef.repeatable_config)
    IN IF ~IsList(value) THEN Ok(d)
       ELSE IF ti >= Len(d.tables) THEN Ok(d)
       ELSE [doc |-> [d EXCEPT !.tables[ti + 1] = r.t], ok |-> r.ok]

----------------------------------------------------------------------------
(* State shared by the specifications of directly invoked helpers: the     *)
(* document is built by Init, the helper runs once on it and returns or    *)
(* raises.  template keeps the document as it was before the call.         *)

EmptySchema == [sections |-> <<>>, fields |-> <<>>, rules |-> <<>>]
NoFile == [exists |-> FALSE, doc |-> EmptyDoc]
NoCall == [op |-> "none"]

\* no database row, no generated file, no invocation of generate_documents
NoDb == [form |-> <<>>, data |-> <<>>, versions |-> <<>>, actions |-> <<>>, events |-> <<>>]

ServicesIdle ==
    /\ db = NoDb
    /\ files = {}
    /\ clock = 0
    /\ procs = <<>>

HelperIdle ==
    /\ ServicesIdle
    /\ outfile = NoFile
    /\ schema = EmptySchema
    /\ data = <<>>
    /\ flat = <<>>
    /\ idx = 0
    /\ handled = {}
    /\ written = {}

HelperFrame == UNCHANGED <<template, outfile, schema, data, flat, idx, handled, written, call, db, files, clock, procs>>

\* every text over alphabet of at most n atoms
TextsUpTo(alphabet, n) == UNION {[1..k -> alphabet] : k \in 0..n}

----------------------------------------------------------------------------
(* Specification SpecInsert: _insert_value_in_paragraph on every short     *)
(* paragraph text.                                                         *)

MaxTextLen == 4

InsertAlphabet == {"a", "_", ":", "?", " "}

InsertValues ==
    {StrV(<<>>), StrV(<<"v">>), StrV(<<"v", BadEscape>>),
     ListV(<<>>), ListV(<<<<"v">>, <<"w">>>>), BoolV(TRUE), BoolV(FALSE)}

InitInsert ==
    /\ \E t \in TextsUpTo(InsertAlphabet, MaxTextLen), v \in InsertValues,
          ty \in {"text", "checkbox"} :
          /\ call = [op |-> "insert", value |-> v, ftype |-> ty]
          /\ template = [paras |-> <<P(t)>>, tables |-> <<>>]
    /\ doc = template
    /\ pc = "call"
    /\ HelperIdle

CallInsert ==
    /\ pc = "call"
    /\ call.op = "insert"
    /\ LET r == InsertValueInParagraph(doc.paras[1], call.value, call.ftype)
       IN /\ doc' = [doc EXCEPT !.paras[1] = r.para]
          /\ pc' = IF r.ok THEN "ret" ELSE "raised"
    /\ HelperFrame

SpecInsert == InitInsert /\ [][CallInsert]_vars

\* the paragraph text before and after the call
InsertText == ParaText(template.paras[1])
InsertResult == ParaText(doc.paras[1])

\* the text splits as P + U + S at its first run of underscores
HasUnderscoreRun == \E i \in 1..Len(InsertText) : InsertText[i] = "_"
RunStart == CHOOSE i \in 1..Len(InsertText) :
                InsertText[i] = "_" /\ \A j \in 1..(i - 1) : InsertText[j] # "_"
RunEnd == CHOOSE m \in RunStart..Len(InsertText) :
                /\ \A j \in RunStart..m : InsertText[j] = "_"
                /\ (m = Len(InsertText) \/ InsertText[m + 1] # "_")
PartP == SubSeq(InsertText, 1, RunStart - 1)
PartS == SubSeq(InsertText, RunEnd + 1, Len(InsertText))
PartPSpaced == IF PartP = <<>> \/ PartP[Len(PartP)] = " " THEN PartP ELSE PartP \o <<" ">>

\* a string value written by a field that is no checkbox
PlainStringCall == call.op = "insert" /\ call.value.k = "str" /\ call.ftype # "checkbox"

\* C4 as stated: a paragraph P + U + S, U a run of underscores, filled with V reads
\* exactly P + V + S afterwards.
C4_ExactlyPVS ==
    (PlainStringCall /\ pc = "ret" /\ HasUnderscoreRun)
        => InsertResult = PartP \o call.value.s \o PartS

\* C4 amended: the text becomes P' + V + S, where P' is P followed by one space when
\* P is not empty and does not end with a space; a value holding a backslash escape
\* that re.sub rejects makes the write raise and leaves the paragraph as it was.
C4_SpacedPVS ==
    (PlainStringCall /\ pc # "call" /\ HasUnderscoreRun)
        => IF HasBadEscape(call.value.s)
           THEN pc = "raised" /\ doc = template
           ELSE pc = "ret" /\ InsertResult = PartPSpaced \o call.value.s \o PartS

\* C4 witness: a label without a trailing space, a run of underscores and a suffix,
\* filled with a non-empty string
C4_Witness ==
    /\ PlainStringCall /\ pc = "ret" /\ HasUnderscoreRun
    /\ call.value.s = <<"v">>
    /\ PartP = <<"a", ":">> /\ PartS = <<"?">>
    /\ InsertResult = <<"a", ":", " ", "v", "?">>

\* whether t is r followed by blanks only and then the value f
IsAppendedTo(t, r, f) ==
    /\ Len(t) >= Len(r) + Len(f)
    /\ SubSeq(t, 1, Len(r)) = r
    /\ SubSeq(t, Len(t) - Len(f) + 1, Len(t)) = f
    /\ \A i \in (Len(r) + 1)..(Len(t) - Len(f)) : IsWs(t[i])

\* C5: the first applicable strategy is applied: a run of underscores is replaced by
\* the value; else the value follows the trailing colon, which stays; else it follows
\* the trailing question mark, which stays; else it is appended after two spaces.
C5_StrategyOrder ==
    (call.op = "insert" /\ pc = "ret")
        => LET f == FormatParagraphValue(call.value, call.ftype)
               kept == Rstrip(InsertText)
           IN IF HasUnderscoreRun
              THEN \/ InsertResult = PartP \o f \o PartS
                   \/ InsertResult = PartPSpaced \o f \o PartS
              ELSE IF kept # <<>> /\ kept[Len(kept)] \in {":", "?"}
              THEN IsAppendedTo(InsertResult, kept, f)
              ELSE InsertResult = kept \o <<" ", " ">> \o f

----------------------------------------------------------------------------
(* Specification SpecAnchor: _fill_paragraph_anchor on short documents.    *)

MaxAnchorParas == 3

AnchorParagraphs ==
    {<<"N", "a", "m", "e", ":", " ", "_", "_">>,
     <<"n", "a", "m", "e", "s">>,
     <<"T", "i", "t", "l", "e", ":">>,
     <<>>}

AnchorNeedles == {<<>>, <<"N", "a", "m", "e">>, <<"t", "i", "t", "l", "e">>, <<"z">>}

InitAnchor ==
    /\ \E n \in 0..MaxAnchorParas :
       \E ts \in [1..n -> AnchorParagraphs],
          pi \in {None} \cup {Some(i) : i \in 0..MaxAnchorParas},
          pcn \in AnchorNeedles :
          /\ template = [paras |-> [i \in 1..n |-> P(ts[i])], tables |-> <<>>]
          /\ call = [op |-> "paragraph",
                     anchor |-> Anchor("paragraph", [paragraph_index |-> pi,
                                                     paragraph_contains |-> pcn]),
                     value |-> StrV(<<"v">>),
                     field |-> Field(<<"f">>, "text", <<"f">>, <<"s">>, None)]
    /\ doc = template
    /\ pc = "call"
    /\ HelperIdle

CallParagraphAnchor ==
    /\ pc = "call"
    /\ call.op = "paragraph"
    /\ LET r == FillParagraphAnchor(doc, call.anchor, call.value, call.field)
       IN /\ doc' = r.doc
          /\ pc' = IF r.ok THEN "ret" ELSE "raised"
    /\ HelperFrame

SpecAnchor == InitAnchor /\ [][CallParagraphAnchor]_vars

\* the paragraphs the call has changed
ChangedParagraphs == {i \in 1..Len(template.paras) : doc.paras[i] # template.paras[i]}

\* the first paragraph whose text contains the needle, case-insensitively
FirstContaining(needle) ==
    LET hit(i) == ContainsCI(ParaText(template.paras[i]), needle)
    IN {i \in 1..Len(template.paras) : hit(i) /\ \A j \in 1..(i - 1) : ~hit(j)}

\* C6: with paragraph_index the paragraph at that index is the one written;
\* paragraph_contains is consulted only without paragraph_index, and then the first
\* paragraph containing it is written; when neither locates one, none is modified.
\* (An index past the last paragraph is left open here: the claim is read in the
\* way most favourable to the code.)
C6_IndexBeforeContains ==
    (call.op = "paragraph" /\ pc = "ret")
        => LET a == call.anchor
           IN IF ~IsNone(a.paragraph_index)
              THEN a.paragraph_index[1] < Len(template.paras)
                        => ChangedParagraphs = {a.paragraph_index[1] + 1}
              ELSE IF a.paragraph_contains # <<>>
              THEN ChangedParagraphs = FirstContaining(a.paragraph_contains)
              ELSE ChangedParagraphs = {}

----------------------------------------------------------------------------
(* Specification SpecCell: _fill_table_cell_anchor on one table of one row *)
(* and two cells; the anchor's default column is the second cell.          *)

MaxCellParas == 2

CellParagraphs == {<<"L", ":">>, <<"L", " ", "X">>, <<>>}

CellValues == {StrV(<<>>), StrV(<<"v">>), StrV(<<BadEscape>>), ListV(<<<<"v">>, <<"w">>>>), BoolV(TRUE)}

CellOptions == <<[value |-> <<"v">>, label |-> <<"V", "e", "e">>]>>

\* table_index, row_index, column_index of the anchors tried
CellIndices ==
    {<<None, None, None>>, <<Some(0), Some(0), Some(0)>>, <<Some(1), None, None>>,
     <<None, Some(1), None>>, <<None, None, Some(2)>>}

InitCell ==
    /\ \E n \in 1..MaxCellParas :
       \E ts \in [1..n -> CellParagraphs],
          ix \in CellIndices,
          cpi \in {None} \cup {Some(i) : i \in 0..MaxCellParas},
          rp \in {<<>>, <<"X">>},
          app \in BOOLEAN,
          v \in CellValues,
          ty \in {"text", "checkbox", "radio"} :
          /\ template = [paras |-> <<>>,
                         tables |-> <<Table(2, << <<[i \in 1..n |-> P(ts[i])],
                                                    [i \in 1..n |-> P(ts[i])]>> >>)>>]
          /\ call = [op |-> "cell",
                     anchor |-> Anchor("table_cell",
                                   [table_index |-> ix[1], row_index |-> ix[2],
                                    column_index |-> ix[3], cell_paragraph_index |-> cpi,
                                    replace_pattern |-> rp,
                                    replace_with |-> IF rp = <<>> THEN <<>>
                                                     ELSE <<"[", ValuePlaceholder, "]">>,
                                    append_to_label |-> app]),
                     value |-> v,
                     field |-> [Field(<<"f">>, ty, <<"f">>, <<"s">>, None)
                                    EXCEPT !.options = CellOptions]]
    /\ doc = template
    /\ pc = "call"
    /\ HelperIdle

CallTableCellAnchor ==
    /\ pc = "call"
    /\ call.op = "cell"
    /\ LET r == FillTableCellAnchor(doc, call.anchor, call.value, call.field)
       IN /\ doc' = r.doc
          /\ pc' = IF r.ok THEN "ret" ELSE "raised"
    /\ HelperFrame

SpecCell == InitCell /\ [][CallTableCellAnchor]_vars

\* the addressed cell before and after the call
CellAt == CellOfAnchor(template, call.anchor)
CellBefore == template.tables[CellAt[1]].rows[CellAt[2]][CellAt[3]]
CellAfter == doc.tables[CellAt[1]].rows[CellAt[2]][CellAt[3]]

\* C8: the write strategy is selected by the anchor flags alone, for every value,
\* the empty one included: with cell_paragraph_index only that paragraph of the cell
\* is written; else with replace_pattern/replace_with the substitution is applied to
\* the existing text; else with append_to_label the value is appended to the label;
\* only without any flag is the cell text replaced.
C8_FlagsSelectStrategy ==
    (call.op = "cell" /\ pc = "ret" /\ CellAt # <<>>)
        => LET a == call.anchor
               fv == FormatCellValue(call.value, call.field).v
               label == Strip(CellText(CellBefore))
               first == ParaText(CellAfter[1])
           IN IF ~IsNone(a.cell_paragraph_index)
              THEN /\ Len(CellAfter) = Len(CellBefore)
                   /\ \A i \in 1..Len(CellBefore) :
                        i # a.cell_paragraph_index[1] + 1 => CellAfter[i] = CellBefore[i]
              ELSE IF a.replace_pattern # <<>> /\ a.replace_with # <<>>
              THEN first = ReSub(a.replace_pattern,
                                 ReplaceAll(a.replace_with, <<ValuePlaceholder>>, fv), label)
              ELSE IF a.append_to_label
              THEN IsAppendedTo(first, label, fv)
              ELSE first = fv

----------------------------------------------------------------------------
(* Specification SpecTable: _fill_table_anchor on one table with a header  *)
(* row, with and without rows below it.                                    *)

MaxCols == 2
MaxExtraRows == 1
MaxElements == 2

HeaderCell(j) == <<P(<<"h", DefaultColumnIds[j]>>)>>
OldCell == <<P(<<"o", "l", "d">>)>>

\* the row records tried for a table of n columns: complete, partial, empty, no dict
RowRecords(n) ==
    {RowDict([c \in {DefaultColumnIds[j] : j \in 1..n} |-> <<"x", c>>]),
     RowDict([c \in {DefaultColumnIds[1]} |-> <<"y">>]),
     RowDict([c \in {"name"} |-> <<"z">>]),
     RowScalar}

\* the column lists tried: one column per cell with default or explicit ids, one
\* column more than the table has cells, and none
ColumnLists(n) ==
    {[j \in 1..n |-> [id |-> None, label |-> <<"h">>]],
     [j \in 1..n |-> [id |-> Some(DefaultColumnIds[j]), label |-> <<"h">>]],
     [j \in 1..(n + 1) |-> [id |-> IF j = 1 THEN Some("name") ELSE None, label |-> <<"h">>]],
     <<>>}

\* the column mappings tried: none, the empty one, the reversal, everything into cell 0
ColumnMappings(n) ==
    {None, Some(<<>>), Some([j \in 1..n |-> n - j]), Some([j \in 1..n |-> 0])}

TableValues(n) ==
    {RowsV(l) : l \in UNION {[1..k -> RowRecords(n)] : k \in 0..MaxElements}}
        \cup {ListV(<<<<"v">>>>), StrV(<<"v">>)}

InitTable ==
    /\ \E n \in 1..MaxCols, extra \in 0..MaxExtraRows :
       \E v \in TableValues(n),
          cols \in ColumnLists(n),
          cm \in ColumnMappings(n),
          sr \in {None, Some(0), Some(1), Some(3)},
          ti \in {None, Some(1)} :
          /\ template = [paras |-> <<>>,
                         tables |-> <<Table(n, [i \in 1..(1 + extra) |->
                                                 [j \in 1..n |-> IF i = 1 THEN HeaderCell(j)
                                                                 ELSE OldCell]])>>]
          /\ call = [op |-> "table",
                     anchor |-> Anchor("table", [table_index |-> ti, start_row |-> sr]),
                     value |-> v,
                     field |-> [Field(<<"f">>, "repeatable", <<"f">>, <<"s">>, None)
                                    EXCEPT !.repeatable_config =
                                        [columns |-> cols, column_mapping |-> cm]]]
    /\ doc = template
    /\ pc = "call"
    /\ HelperIdle

CallTableAnchor ==
    /\ pc = "call"
    /\ call.op = "table"
    /\ LET r == FillTableAnchor(doc, call.anchor, call.value, call.field)
       IN /\ doc' = r.doc
          /\ pc' = IF r.ok THEN "ret" ELSE "raised"
    /\ HelperFrame

SpecTable == InitTable /\ [][CallTableAnchor]_vars

\* the case of C7: the anchor's table exists and holds its header row only, start_row
\* is 1 (given or by default) and the value is a list
HeaderOnlyCall ==
    /\ call.op = "table"
    /\ call.anchor.table_index = None
    /\ call.anchor.start_row \in {None, Some(1)}
    /\ IsList(call.value)
    /\ Len(template.tables[1].rows) = 1

\* the columns of the config that land in cell j (counted from 0) of a row
ColumnsInto(j) ==
    LET cfg == call.field.repeatable_config
    IN {c \in 0..(Len(cfg.columns) - 1) :
            j = IF cfg.column_mapping # None /\ c < Len(cfg.column_mapping[1])
                THEN cfg.column_mapping[1][c + 1] ELSE c}

\* the k-th element's datum for column c: absent data and elements that are no
\* record give the empty text
ElementDatum(k, c) ==
    LET cols == call.field.repeatable_config.columns
        id == IF cols[c + 1].id = None THEN DefaultColumnIds[c + 1] ELSE cols[c + 1].id[1]
        e == call.value.l[k + 1]
    IN IF call.value.k = "rows" /\ e.isdict /\ id \in DOMAIN e.m THEN e.m[id] ELSE <<>>

\* C7: with start_row = 1, N elements and a table holding its header only, the call
\* returns, the table has at least 1 + N rows and row 1 + k holds the k-th element's
\* column values, the empty text for a datum that is absent (where several columns
\* are mapped to one cell, the cell holds the last of them).
C7_RowsHoldElements ==
    (HeaderOnlyCall /\ pc # "call")
        => /\ pc = "ret"
           /\ Len(doc.tables[1].rows) >= 1 + Len(call.value.l)
           /\ doc.tables[1].rows[1] = template.tables[1].rows[1]
           /\ \A k \in 0..(Len(call.value.l) - 1) :
                LET row == doc.tables[1].rows[k + 2]
                IN /\ Len(row) = template.tables[1].ncols
                   /\ \A j \in 0..(Len(row) - 1) :
                        IF ColumnsInto(j) = {}
                        THEN CellText(row[j + 1]) = <<>>
                        ELSE CellText(row[j + 1]) =
                                ElementDatum(k, CHOOSE c \in ColumnsInto(j) :
                                                   \A o \in ColumnsInto(j) : o <= c)

\* C7 witness: two records, the second without a datum for the second column, land
\* in rows 1 and 2 of a two-column table that had its header only
C7_Witness ==
    /\ HeaderOnlyCall /\ pc = "ret"
    /\ template.tables[1].ncols = 2
    /\ call.field.repeatable_config.column_mapping = None
    /\ Len(call.field.repeatable_config.columns) = 2
    /\ Len(call.value.l) = 2
    /\ call.value.k = "rows"
    /\ Len(doc.tables[1].rows) = 3
    /\ CellText(doc.tables[1].rows[2][2]) = <<"x", "col_1">>
    /\ CellText(doc.tables[1].rows[3][1]) = <<"y">>
    /\ CellText(doc.tables[1].rows[3][2]) = <<>>

----------------------------------------------------------------------------
(* The data map.  A mapping is a sequence of entries [k, v] in insertion   *)
(* order with distinct keys; a key is a text whose atoms are the segments  *)
(* between its dots, the dots themselves, and a leading "_" when it has    *)
(* one.                                                                    *)

Entry(k, v) == [k |-> k, v |-> v]

\* the literal key 'a.b'
K(a, b) == <<a, ".", b>>

\* dict(items): a repeated key keeps its first position and takes the last value
DictOf(items) ==
    LET RECURSIVE go(_, _)
        go(acc, i) ==
            IF i > Len(items) THEN acc
            ELSE LET hit == {j \in 1..Len(acc) : acc[j].k = items[i].k}
                 IN IF hit = {} THEN go(Append(acc, items[i]), i + 1)
                    ELSE go([acc EXCEPT ![CHOOSE j \in hit : TRUE].v = items[i].v], i + 1)
    IN go(<<>>, 1)

\* DocumentService._flatten_dict: a new mapping, d itself is only read
FlattenDict(data_map) ==
    LET RECURSIVE go(_, _)
        go(d, parent_key) ==
            LET new_key(k) == IF parent_key # <<>> THEN parent_key \o <<".">> \o k ELSE k
                items(i) == IF d[i].v.k = "dict"
                            THEN go(d[i].v.d, new_key(d[i].k))
                            ELSE <<Entry(new_key(d[i].k), d[i].v)>>
            IN DictOf(ConcatAll([i \in 1..Len(d) |-> items(i)]))
    IN go(data_map, <<>>)

HasKey(fl, key) == \E i \in 1..Len(fl) : fl[i].k = key

\* flat_data.get(key, dflt)
Get(fl, key, dflt) ==
    IF HasKey(fl, key) THEN fl[CHOOSE i \in 1..Len(fl) : fl[i].k = key].v ELSE dflt

EmptyStr == StrV(<<>>)
EmptyList == ListV(<<>>)

\* value == 'text'
Eq(v, t) == v.k = "str" /\ v.s = t

\* 'text' in value, for a value that is a list
InList(t, v) == v.k = "list" /\ \E i \in 1..Len(v.l) : v.l[i] = t

----------------------------------------------------------------------------
(* Legacy FORMCHECKBOX helpers.                                            *)

\* the first run of the paragraph that holds a checkbox, 0 when there is none
FirstBox(para) ==
    IF \E i \in 1..Len(para) : para[i].box.has
    THEN CHOOSE i \in 1..Len(para) : para[i].box.has /\ \A j \in 1..(i - 1) : ~para[j].box.has
    ELSE 0

\* DocumentService._check_legacy_checkbox: [para, found]
CheckLegacyCheckbox(para, check) ==
    LET i == FirstBox(para)
    IN IF i = 0 THEN [para |-> para, found |-> FALSE]
       ELSE [para |-> [para EXCEPT ![i].box.chk = IF check THEN "1" ELSE "none"],
             found |-> TRUE]

\* the paragraph tests of the pre-passes
OtherSpecify == <<"other", ",", " ", "specify">>

HasOtherSpecify(t) == Contains(Lower(t), OtherSpecify)

IsScroPara(t) ==
    LET l == Lower(t)
    IN Contains(l, <<"scro">>) /\ Contains(l, <<"no">>) /\ Contains(l, <<"yes">>)

IsIbcInfectiousPara(t) == Contains(Lower(t), <<"letter of approval from", " ", "ibc">>)
IsIbcRecombinantPara(t) == Contains(Lower(t), <<"recombinant or synthetic">>)

IsIbcHazardousPara(t) ==
    Contains(Lower(t), <<"carcinogens">>) \/ Contains(Lower(t), <<"hazardous materials">>)

IsPhsPara(t) ==
    Contains(Lower(t), <<"phs policy">>) \/ Contains(Lower(t), <<"public health service">>)

IsRecruitmentOtherPara(t) ==
    Contains(Lower(t), OtherSpecify) /\ ~Contains(Lower(t), <<"source">>)

IsFlyersPara(t) == Contains(Lower(t), <<"flyers">>) /\ Contains(Lower(t), <<"attach copy">>)
IsVerbalPara(t) == Contains(Lower(t), <<"verbal">>) /\ Contains(Lower(t), <<"script">>)
IsElectronicPara(t) == Contains(Lower(t), <<"yes", ",", " ", "describe">>)

IsConsentTimingPara(t) == Contains(Lower(t), <<"relative to the performance">>)
IsInducementPara(t) == Contains(Lower(t), <<"inducement">>) /\ Contains(Lower(t), <<"offered">>)

IsNoYesPara(t) == Strip(t) \in {<<"No", " ", " ", "Yes">>, <<"No", " ", "Yes">>}

\* the paragraph tests of the searches of _fill_docx, by the question they locate
ParaMatches(which, t) ==
    CASE which = "initiated_other" -> HasOtherSpecify(t)
      [] which = "no_yes" -> IsNoYesPara(t)
      [] which = "scro" -> IsScroPara(t)
      [] which = "ibc_infectious" -> IsIbcInfectiousPara(t)
      [] which = "ibc_recombinant" -> IsIbcRecombinantPara(t)
      [] which = "ibc_hazardous" -> IsIbcHazardousPara(t)
      [] which = "phs" -> IsPhsPara(t)
      [] which = "source_other" -> IsRecruitmentOtherPara(t)
      [] which = "flyers" -> IsFlyersPara(t)
      [] which = "verbal" -> IsVerbalPara(t)
      [] which = "electronic" -> IsElectronicPara(t)
      [] which = "consent_timing" -> IsConsentTimingPara(t)
      [] OTHER -> IsInducementPara(t)

\* the first paragraph (1-based) whose text satisfies the test `which`, 0 when there is none
FirstPara(paras, which) ==
    LET hit(i) == ParaMatches(which, ParaText(paras[i]))
    IN IF \E i \in 1..Len(paras) : hit(i)
       THEN CHOOSE i \in 1..Len(paras) : hit(i) /\ \A j \in 1..(i - 1) : ~hit(j)
       ELSE 0

\* DocumentService._check_checkbox_by_text: the first paragraph that holds the
\* text and a checkbox gets its first checkbox set
CheckCheckboxByText(d, search_text, check) ==
    LET hit(i) == /\ ContainsCI(ParaText(d.paras[i]), search_text)
                  /\ FirstBox(d.paras[i]) # 0
    IN IF \E i \in 1..Len(d.paras) : hit(i)
       THEN LET i == CHOOSE i \in 1..Len(d.paras) : hit(i) /\ \A j \in 1..(i - 1) : ~hit(j)
            IN [d EXCEPT !.paras[i] = CheckLegacyCheckbox(d.paras[i], check).para]
       ELSE d

\* the loop over the runs of a paragraph with two checkboxes: every checkbox
\* loses w:checked, the first one is checked for `first`, the second for `second`
TogglePair(para, value, first, second) ==
    LET count(i) == Cardinality({j \in 1..(i - 1) : para[j].box.has})
        should_check(i) == \/ count(i) = 0 /\ Eq(value, first)
                           \/ count(i) = 1 /\ Eq(value, second)
    IN [i \in 1..Len(para) |->
          IF para[i].box.has
          THEN [para[i] EXCEPT !.box.chk = IF should_check(i) THEN "1" ELSE "none"]
          ELSE para[i]]

\* the Yes/No questions: the first paragraph that satisfies the test is toggled
ToggleFirst(d, which, value, first, second) ==
    LET i == FirstPara(d.paras, which)
    IN IF i = 0 THEN d
       ELSE [d EXCEPT !.paras[i] = TogglePair(d.paras[i], value, first, second)]

FiveBlanks == <<" ", " ", " ", " ", " ">>

\* ' ' in run.text or (with blanks) '     ' in run.text
IsPlaceholder(run, blanks) ==
    \/ Contains(run.t, <<ENSP>>)
    \/ blanks /\ Contains(run.t, FiveBlanks)

\* run.text = value: [t, ok]; the setter iterates over the value, a value
\* that is no string and no list of strings raises TypeError
RunTextOf(value) ==
    CASE value.k = "str" -> [t |-> value.s, ok |-> TRUE]
      [] value.k = "list" -> [t |-> ConcatAll(value.l), ok |-> TRUE]
      [] OTHER -> [t |-> <<>>, ok |-> FALSE]

\* the first placeholder run of the paragraph receives the value: [para, ok]
FillPlaceholder(para, value, blanks) ==
    LET hits == {i \in 1..Len(para) : IsPlaceholder(para[i], blanks)}
        set(i, r) == IF ~r.ok THEN [para |-> para, ok |-> FALSE]
                     ELSE [para |-> [para EXCEPT ![i].t = r.t], ok |-> TRUE]
    IN IF hits = {} THEN [para |-> para, ok |-> TRUE]
       ELSE set(CHOOSE i \in hits : \A j \in hits : i <= j, RunTextOf(value))

\* the document with paragraph i replaced by the result r = [para, ok] of a step on it
WithPara(d, i, r) == [doc |-> [d EXCEPT !.paras[i] = r.para], ok |-> r.ok]

\* the first paragraph that satisfies the test gets its placeholder filled
FillFirstPlaceholder(d, which, value) ==
    LET at(i) == IF i = 0 THEN Ok(d)
                 ELSE WithPara(d, i, FillPlaceholder(d.paras[i], value, TRUE))
    IN at(FirstPara(d.paras, which))

----------------------------------------------------------------------------
(* DocumentService._fill_docx: the composite pre-passes.  Each takes the   *)
(* document and flat_data and returns the document it leaves and whether   *)
(* it returned (ok) or raised.  Indices are the 0-based ones of the code.  *)

ContactTable == 1
ContactRow == 9
FundingTable == 0
FundingRow == 14

contact_fields ==
    <<K("personnel", "contact_name"), K("personnel", "contact_ext"),
      K("personnel", "contact_email")>>

\* the contact block: three ids joined into the merged cell of row 9
FillContact(d, fl) ==
    LET name == Get(fl, contact_fields[1], EmptyStr)
        ext == Get(fl, contact_fields[2], EmptyStr)
        email == Get(fl, contact_fields[3], EmptyStr)
        parts == (IF Truthy(name) THEN <<Str(name)>> ELSE <<>>)
                 \o (IF Truthy(ext) THEN << <<"Ext", ":", " ">> \o Str(ext) >> ELSE <<>>)
                 \o (IF Truthy(email) THEN << <<"Email", ":", " ">> \o Str(email) >> ELSE <<>>)
        combined_contact == Join(parts, <<" ", "|", " ">>)
    IN IF ~(Truthy(name) \/ Truthy(ext) \/ Truthy(email)) THEN Ok(d)
       ELSE IF ~(Len(d.tables) > ContactTable) THEN Ok(d)
       ELSE IF ~(Len(d.tables[ContactTable + 1].rows) > ContactRow) THEN Ok(d)
       ELSE Ok([d EXCEPT !.tables[ContactTable + 1].rows[ContactRow + 1][1] =
                    SetCellText(@, combined_contact)])

\* the funding block: every paragraph of the cell of row 14 is rewritten on its own
FillFunding(d, fl) ==
    LET funding_intramural == Get(fl, K("funding", "intramural_dept"), EmptyStr)
        funding_extramural == Get(fl, K("funding", "extramural_sponsor"), EmptyStr)
        funding_federal == Get(fl, K("funding", "federally_funded"), EmptyStr)
        federal_label == IF Eq(funding_federal, <<"yes">>) THEN "Yes" ELSE "No"
        rewrite(para) ==
            LET t == Lower(ParaText(para))
            IN IF Truthy(funding_intramural) /\ Contains(t, <<"department or fund">>)
               THEN Rewrite(<<"If intramural, what", " ", "department or fund", "?", " ">>
                            \o Str(funding_intramural))
               ELSE IF Truthy(funding_extramural) /\ Contains(t, <<"name of the sponsor">>)
               THEN Rewrite(<<"If extramural, what is the", " ", "name of the sponsor", "?", " ">>
                            \o Str(funding_extramural))
               ELSE IF Truthy(funding_federal) /\ Contains(t, <<"federally funded">>)
               THEN Rewrite(<<"Is the study", " ", "federally funded", "?", " ", federal_label>>)
               ELSE para
    IN IF ~(Truthy(funding_intramural) \/ Truthy(funding_extramural) \/ Truthy(funding_federal))
       THEN Ok(d)
       ELSE IF ~(Len(d.tables) > FundingTable) THEN Ok(d)
       ELSE IF ~(Len(d.tables[FundingTable + 1].rows) > FundingRow) THEN Ok(d)
       ELSE Ok([d EXCEPT !.tables[FundingTable + 1].rows[FundingRow + 1][1] =
                    [i \in 1..Len(@) |-> rewrite(@[i])]])

DrugsPara == 20
DrugsNoPara == 21
DrugsYesPara == 22
FdaYesPara == 23
FdaNoPara == 24
PhasePara == 25
ScheduleNoPara == 27
ScheduleYesPara == 28

\* doc.paragraphs[i] cleared and rewritten with one run
SetPara(d, i, text) == [d EXCEPT !.paras[i + 1] = Rewrite(text)]

Blank6 == <<"_", "_", "_", "_", "_", "_">>

PhaseNames == <<"phase1", "phase2", "phase3", "phase4", "emergency">>
PhaseLabels == <<"Phase I", "Phase II", "Phase III", "Phase IV", "Emergency Use">>

\* section V.B, drugs, biologics and devices (paragraphs 20 to 28)
FillDrugs(d, fl) ==
    LET drugs_biologics_devices == Get(fl, K("study", "drugs_biologics_devices"), EmptyList)
        fda_regulations == Get(fl, K("study", "fda_regulations_apply"), EmptyStr)
        ind_number == Get(fl, K("study", "ind_number"), EmptyStr)
        ide_number == Get(fl, K("study", "ide_number"), EmptyStr)
        study_phase == Get(fl, K("study", "phase"), EmptyList)
        schedule_drugs == Get(fl, K("study", "schedule_drugs"), EmptyStr)
        schedule_approval == Get(fl, K("study", "schedule_drugs_approval"), EmptyStr)
        phase_other_text == Get(fl, K("study", "phase_other"), EmptyStr)
        n == Len(d.paras)
        mark(t, word, old, new) ==
            IF InList(<<word>>, drugs_biologics_devices) THEN ReplaceAll(t, old, new) ELSE t
        text20 == mark(mark(mark(ParaText(d.paras[DrugsPara + 1]),
                       "drugs", <<"drugs", " ", ",">>, <<"drugs", " ", GlyphChecked, ",">>),
                       "biologics", <<"biologics", " ", ",">>, <<"biologics", " ", GlyphChecked, ",">>),
                       "devices", <<"devices", " ", " ">>, <<"devices", " ", GlyphChecked, " ">>)
        text22 == IF Eq(fda_regulations, <<"yes">>)
                  THEN ReplaceAll(ParaText(d.paras[DrugsYesPara + 1]),
                                  <<"Yes", ":">>, <<"Yes", " ", GlyphChecked, ":">>)
                  ELSE ParaText(d.paras[DrugsYesPara + 1])
        d1 == IF IsList(drugs_biologics_devices) /\ Len(drugs_biologics_devices.l) > 0
              THEN LET a == IF n > DrugsPara THEN SetPara(d, DrugsPara, text20) ELSE d
                   IN IF n > DrugsYesPara THEN SetPara(a, DrugsYesPara, text22) ELSE a
              ELSE IF n > DrugsNoPara
                   THEN SetPara(d, DrugsNoPara, <<"No", " ", GlyphChecked>>)
                   ELSE d
        or_blank(v) == IF Truthy(v) THEN Str(v) ELSE Blank6
        text23 == <<"Yes", " ", GlyphChecked, ":", " ", " ", "Provide IND#", " ">>
                  \o or_blank(ind_number) \o <<" ", " ", "IDE#", " ">> \o or_blank(ide_number)
        text24 == ParaText(d1.paras[FdaNoPara + 1])
        d2 == IF Eq(fda_regulations, <<"yes">>)
              THEN IF n > FdaYesPara THEN SetPara(d1, FdaYesPara, text23) ELSE d1
              ELSE IF Eq(fda_regulations, <<"no">>) /\ n > FdaNoPara
              THEN IF StartsWith(text24, <<"No", ":">>)
                   THEN SetPara(d1, FdaNoPara,
                                ReplaceN(text24, <<"No", ":">>, <<"No", " ", GlyphChecked, ":">>, 1))
                   ELSE d1
              ELSE d1
        phase(i) == IF InList(<<PhaseNames[i]>>, study_phase)
                    THEN <<" ", PhaseLabels[i], " ", GlyphChecked, ",">>
                    ELSE <<" ", PhaseLabels[i], " ", ",">>
        text25 == <<"2", ".", " ", " ", "Check appropriately", ":">>
                  \o ConcatAll([i \in 1..Len(PhaseNames) |-> phase(i)])
                  \o (IF InList(<<"other">>, study_phase)
                      THEN <<" ", "Other", " ", GlyphChecked, ",", " ", "specify", ":", " ">>
                           \o Str(phase_other_text)
                      ELSE <<" ", "Other", ",", " ", "specify", ":">>)
        d3 == IF IsList(study_phase) /\ Len(study_phase.l) > 0 /\ n > PhasePara
              THEN SetPara(d2, PhasePara, text25)
              ELSE d2
        approval_text ==
            <<"Yes", " ", GlyphChecked, ":", " ",
              "This use must be approved by the California State Research Advisory Panel",
              ".", " ", " ", "Indicate whether", " ">>
            \o (IF Eq(schedule_approval, <<"investigator">>)
                THEN <<"you", " ", GlyphChecked, " ", "or the sponsor", " ", " ">>
                ELSE IF Eq(schedule_approval, <<"sponsor">>)
                THEN <<"you", " ", " ", "or the sponsor", " ", GlyphChecked, " ">>
                ELSE <<"you", " ", " ", "or the sponsor", " ", " ">>)
            \o <<"will obtain this approval", ".">>
        d4 == IF Eq(schedule_drugs, <<"no">>) /\ n > ScheduleNoPara
              THEN SetPara(d3, ScheduleNoPara, <<"No", " ", GlyphChecked>>)
              ELSE IF Eq(schedule_drugs, <<"yes">>) /\ n > ScheduleYesPara
              THEN SetPara(d3, ScheduleYesPara, approval_text)
              ELSE d3
    IN Ok(d4)

\* initiation_map.get(study_initiated_by, '')
InitiationTarget(v) ==
    CASE Eq(v, <<"local">>) -> <<"Local investigator">>
      [] Eq(v, <<"sponsor", "_", "investigator">>) -> <<"sponsor-investigator">>
      [] Eq(v, <<"cooperative">>) -> <<"Cooperative group">>
      [] Eq(v, <<"external">>) -> <<"External sponsor">>
      [] Eq(v, <<"other">>) -> <<"Other", ",", " ", "specify">>
      [] OTHER -> <<>>

\* section V.A, who initiated the study
FillInitiation(d, fl) ==
    LET study_initiated_by == Get(fl, K("study", "initiated_by"), EmptyStr)
        study_initiated_other == Get(fl, K("study", "initiated_other"), EmptyStr)
        target_text == InitiationTarget(study_initiated_by)
        d1 == IF target_text # <<>> THEN CheckCheckboxByText(d, target_text, TRUE) ELSE d
    IN IF ~Truthy(study_initiated_by) THEN Ok(d)
       ELSE IF IsList(study_initiated_by) THEN Raised(d)    \* TypeError: unhashable type
       ELSE IF Eq(study_initiated_by, <<"other">>) /\ Truthy(study_initiated_other)
       THEN FillFirstPlaceholder(d1, "initiated_other", study_initiated_other)
       ELSE Ok(d1)

\* section V.C, student project: the first paragraph that reads 'No  Yes' or
\* 'No Yes' ends the search, toggled or not
FillStudent(d, fl) ==
    LET is_student_project == Get(fl, K("study", "is_student_project"), EmptyStr)
        i == FirstPara(d.paras, "no_yes")
    IN IF ~Truthy(is_student_project) THEN Ok(d)
       ELSE IF i = 0 THEN Ok(d)
       ELSE IF i - 1 > 0 /\ Contains(Lower(ParaText(d.paras[i - 1])), <<"student project">>)
       THEN Ok([d EXCEPT !.paras[i] =
                   TogglePair(d.paras[i], is_student_project, <<"no">>, <<"yes">>)])
       ELSE Ok(d)

RadiationNoPara == 35
RadiationYesPara == 36
BenefitNoPara == 38
BenefitYesPara == 39
RoutineNoPara == 41
RoutineYesPara == 42
DoseNoPara == 44
DoseYesPara == 45

\* _check_legacy_checkbox(doc.paragraphs[i], True) after the steps before it:
\* the subscript raises IndexError on a document of i paragraphs or fewer
CheckAt(r, i) ==
    IF ~r.ok THEN r
    ELSE IF i >= Len(r.doc.paras) THEN Raised(r.doc)
    ELSE Ok([r.doc EXCEPT !.paras[i + 1] = CheckLegacyCheckbox(@, TRUE).para])

\* section V.D, ionizing radiation (paragraphs 35 to 45)
FillRadiation(d, fl) ==
    LET ionizing_radiation == Get(fl, K("study", "ionizing_radiation"), EmptyStr)
        radiation_direct_benefit == Get(fl, K("study", "radiation_direct_benefit"), EmptyStr)
        radiation_routine == Get(fl, K("study", "radiation_routine"), EmptyStr)
        radiation_greater_dose == Get(fl, K("study", "radiation_greater_dose"), EmptyStr)
        yes(v) == Eq(v, <<"yes">>)
        no(v) == Eq(v, <<"no">>)
        r1 == IF Truthy(ionizing_radiation)
              THEN CheckAt(Ok(d), IF no(ionizing_radiation) THEN RadiationNoPara
                                  ELSE RadiationYesPara)
              ELSE Ok(d)
        r2 == IF yes(ionizing_radiation) /\ Truthy(radiation_direct_benefit)
              THEN CheckAt(r1, IF no(radiation_direct_benefit) THEN BenefitNoPara
                               ELSE BenefitYesPara)
              ELSE r1
        r3 == IF yes(ionizing_radiation) /\ yes(radiation_direct_benefit)
                 /\ Truthy(radiation_routine)
              THEN CheckAt(r2, IF no(radiation_routine) THEN RoutineNoPara ELSE RoutineYesPara)
              ELSE r2
        r4 == IF yes(ionizing_radiation) /\ yes(radiation_direct_benefit)
                 /\ yes(radiation_routine) /\ Truthy(radiation_greater_dose)
              THEN CheckAt(r3, IF no(radiation_greater_dose) THEN DoseNoPara ELSE DoseYesPara)
              ELSE r3
    IN r4

\* a Yes/No question located by its text
FillYesNo(d, fl, key, which) ==
    LET v == Get(fl, key, EmptyStr)
    IN IF Truthy(v) THEN Ok(ToggleFirst(d, which, v, <<"no">>, <<"yes">>)) ELSE Ok(d)

\* section V.E
FillScro(d, fl) == FillYesNo(d, fl, K("study", "scro_required"), "scro")

\* section V.F, three questions one after the other
FillIbc(d, fl) ==
    LET a == FillYesNo(d, fl, K("study", "ibc_infectious"), "ibc_infectious").doc
        b == FillYesNo(a, fl, K("study", "ibc_recombinant"), "ibc_recombinant").doc
    IN FillYesNo(b, fl, K("study", "ibc_hazardous"), "ibc_hazardous")

\* section V.G
FillPhs(d, fl) == FillYesNo(d, fl, K("study", "phs_submission"), "phs")

PopulationTable == 2
PopulationRow == 3

\* pop_labels of the three cells: <<value, search text>>
VulnerableLabels ==
    << << <<"abortuses">>, "abortuses" >>,
       << <<"diminished", "_", "capacity">>, "diminished" >>,
       << <<"economically", "_", "disadvantaged">>, "economically disadvantaged" >>,
       << <<"educationally", "_", "disadvantaged">>, "educationally disadvantaged" >>,
       << <<"fetuses">>, "fetuses" >>,
       << <<"minors">>, "minors" >>,
       << <<"neonates">>, "neonates" >>,
       << <<"pregnant">>, "pregnant" >>,
       << <<"prisoners">>, "prisoners" >> >>

SpecialLabels ==
    << << <<"elderly">>, "elderly" >>,
       << <<"illiterate">>, "illiterate" >>,
       << <<"institutionalized">>, "institutionalized" >>,
       << <<"patients", "_", "inpatients">>, "inpatients" >>,
       << <<"patients", "_", "outpatients">>, "outpatients" >>,
       << <<"terminally", "_", "ill">>, "terminally" >>,
       << <<"traumatized">>, "traumatized" >> >>

OtherPopulationLabels ==
    << << <<"employees">>, "employees" >>,
       << <<"female", "_", "only">>, "female (excludes males)" >>,
       << <<"healthy">>, "healthy (non-patient)" >>,
       << <<"male", "_", "only">>, "male (excludes females)" >>,
       << <<"minorities">>, "minorities" >>,
       << <<"non", "_", "english">>, "non-english" >>,
       << <<"physically", "_", "handicapped">>, "physically handicapped" >>,
       << <<"sda", "_", "cohort">>, "seventh-day adventist" >>,
       << <<"students">>, "students" >> >>

\* the loop over the paragraphs of one cell of the classification row
\* [cell, ok]; with_other tells whether the cell has an 'Other, specify' line
FillPopulationCell(cell, labels, selected, with_other, other) ==
    LET listed(para) ==
            \E i \in 1..Len(labels) :
                /\ Contains(Lower(ParaText(para)), <<labels[i][2]>>)
                /\ InList(labels[i][1], selected)
        specify(para) == with_other /\ Truthy(other) /\ HasOtherSpecify(ParaText(para))
        checked(para) == CheckLegacyCheckbox(para, TRUE).para
        other_line(para, labelled) ==
            IF specify(para) THEN FillPlaceholder(checked(labelled), other, FALSE)
            ELSE [para |-> labelled, ok |-> TRUE]
        line(para) == other_line(para, IF listed(para) THEN checked(para) ELSE para)
        finish(rs, stop) ==
            [cell |-> [i \in 1..Len(cell) |->
                          IF stop = 0 \/ i <= stop THEN rs[i].para ELSE cell[i]],
             ok |-> stop = 0]
        first_raise(rs) ==
            IF \A i \in 1..Len(cell) : rs[i].ok THEN 0
            ELSE CHOOSE i \in 1..Len(cell) : ~rs[i].ok /\ \A j \in 1..(i - 1) : rs[j].ok
        stop_at(rs) == finish(rs, first_raise(rs))
    IN stop_at([i \in 1..Len(cell) |-> line(cell[i])])

\* section VI, classification of subjects (table 2, row 3)
FillPopulation(d, fl) ==
    LET vulnerable_populations == Get(fl, K("population", "vulnerable"), EmptyList)
        special_populations == Get(fl, K("population", "special"), EmptyList)
        special_other == Get(fl, K("population", "special_other"), EmptyStr)
        other_populations == Get(fl, K("population", "other_populations"), EmptyList)
        other_populations_other == Get(fl, K("population", "other_populations_other"), EmptyStr)
        put(r, j, c) == [row |-> [r.row EXCEPT ![j] = c.cell], ok |-> c.ok]
        cell_step(r, j, labels, selected, with_other, other) ==
            IF ~r.ok \/ ~(Len(r.row) > j - 1 /\ IsList(selected)) THEN r
            ELSE put(r, j, FillPopulationCell(r.row[j], labels, selected, with_other, other))
        fill_row(row) ==
            cell_step(cell_step(cell_step([row |-> row, ok |-> TRUE],
                                          1, VulnerableLabels, vulnerable_populations,
                                          FALSE, EmptyStr),
                                2, SpecialLabels, special_populations, TRUE, special_other),
                      3, OtherPopulationLabels, other_populations, TRUE,
                      other_populations_other)
        finish(r) ==
            [doc |-> [d EXCEPT !.tables[PopulationTable + 1].rows[PopulationRow + 1] = r.row],
             ok |-> r.ok]
    IN IF ~(Len(d.tables) > PopulationTable) THEN Ok(d)
       ELSE IF ~(Len(d.tables[PopulationTable + 1].rows) > PopulationRow) THEN Ok(d)
       ELSE finish(fill_row(d.tables[PopulationTable + 1].rows[PopulationRow + 1]))

\* the electronic recruitment question: after the toggle of each run, a
\* placeholder run receives the description; [para, ok]
FillElectronicPara(para, electronic_used, electronic_description) ==
    LET describe == Eq(electronic_used, <<"yes">>) /\ Truthy(electronic_description)
        upto(toggled, n) ==
            [i \in 1..Len(para) |-> IF i <= n /\ para[i].box.has THEN toggled[i] ELSE para[i]]
        fill(toggled, hits, r) ==
            IF ~describe \/ hits = {} THEN [para |-> toggled, ok |-> TRUE]
            ELSE IF ~r.ok
            THEN [para |-> upto(toggled, CHOOSE i \in hits : \A j \in hits : i <= j),
                  ok |-> FALSE]
            ELSE [para |-> [i \in 1..Len(para) |->
                               IF i \in hits THEN [toggled[i] EXCEPT !.t = r.t] ELSE toggled[i]],
                  ok |-> TRUE]
    IN fill(TogglePair(para, electronic_used, <<"no">>, <<"yes">>),
            {i \in 1..Len(para) : IsPlaceholder(para[i], TRUE)},
            RunTextOf(electronic_description))

\* section VI, recruitment
FillRecruitment(d, fl) ==
    LET recruitment_source == Get(fl, K("recruitment", "source"), EmptyList)
        recruitment_source_other == Get(fl, K("recruitment", "source_other"), EmptyStr)
        flyers_used == Get(fl, K("recruitment", "flyers_used"), EmptyStr)
        verbal_used == Get(fl, K("recruitment", "verbal_used"), EmptyStr)
        electronic_used == Get(fl, K("recruitment", "electronic_used"), EmptyStr)
        electronic_description == Get(fl, K("recruitment", "electronic_description"), EmptyStr)
        by_text(x, value, search_text) ==
            IF InList(value, recruitment_source)
            THEN CheckCheckboxByText(x, search_text, TRUE) ELSE x
        source_other(x) ==
            IF InList(<<"other">>, recruitment_source) /\ Truthy(recruitment_source_other)
            THEN FillFirstPlaceholder(x, "source_other", recruitment_source_other)
            ELSE Ok(x)
        sources(x) ==
            IF IsList(recruitment_source)
            THEN source_other(
                    by_text(by_text(by_text(x, <<"own", "_", "patients">>,
                                            <<"PI/collaborators will recruit">>),
                                    <<"letter", "_", "referrals">>, <<"asking for referrals">>),
                            <<"letter", "_", "patients">>, <<"Dear Patient">>))
            ELSE Ok(x)
        flyers(x) == IF Truthy(flyers_used)
                     THEN ToggleFirst(x, "flyers", flyers_used, <<"no">>, <<"yes">>)
                     ELSE x
        verbal(x) == IF Truthy(verbal_used)
                     THEN ToggleFirst(x, "verbal", verbal_used, <<"no">>, <<"yes">>)
                     ELSE x
        electronic_at(x, i) ==
            IF Truthy(electronic_used) /\ i # 0
            THEN WithPara(x, i, FillElectronicPara(x.paras[i], electronic_used,
                                                   electronic_description))
            ELSE Ok(x)
        electronic(x) == electronic_at(x, FirstPara(x.paras, "electronic"))
        rest(r) == IF ~r.ok THEN r ELSE electronic(verbal(flyers(r.doc)))
    IN rest(sources(d))

\* doc_labels and waiver_labels: <<value, search text>>
ConsentDocumentLabels ==
    << << <<"informed", "_", "consent">>, "informed consent document" >>,
       << <<"parent", "_", "permission">>, "consent/permission of parent" >>,
       << <<"assent", "_", "13", "_", "17">>, "13 - 17 yrs" >>,
       << <<"assent", "_", "7", "_", "12">>, "7 - 12 yrs" >>,
       << <<"hipaa", "_", "auth">>, "authorization for use of protected health" >> >>

ConsentWaiverLabels ==
    << << <<"waiver", "_", "consent">>, "waiver of consent" >>,
       << <<"waiver", "_", "written">>, "waiver of written consent" >>,
       << <<"waiver", "_", "signed">>, "waiver of signed consent" >>,
       << <<"waiver", "_", "hipaa">>, "waiver of hipaa" >> >>

\* for each label in order, the checkbox of a selected one is set
CheckSelected(d, labels, selected) ==
    LET RECURSIVE go(_, _)
        go(doc0, i) ==
            IF i > Len(labels) THEN doc0
            ELSE go(IF InList(labels[i][1], selected)
                    THEN CheckCheckboxByText(doc0, <<labels[i][2]>>, TRUE)
                    ELSE doc0,
                    i + 1)
    IN IF IsList(selected) THEN go(d, 1) ELSE d

\* section VI, consent
FillConsent(d, fl) ==
    LET consent_timing == Get(fl, K("consent", "timing"), EmptyStr)
        consent_documents == Get(fl, K("consent", "documents_required"), EmptyList)
        consent_waiver == Get(fl, K("consent", "waiver_requested"), EmptyList)
        consent_inducement == Get(fl, K("consent", "inducement"), EmptyStr)
        a == IF Truthy(consent_timing)
             THEN ToggleFirst(d, "consent_timing", consent_timing,
                              <<"conjunction">>, <<"separate">>)
             ELSE d
        b == CheckSelected(a, ConsentDocumentLabels, consent_documents)
        c == CheckSelected(b, ConsentWaiverLabels, consent_waiver)
    IN IF Truthy(consent_inducement)
       THEN FillFirstPlaceholder(c, "inducement", consent_inducement)
       ELSE Ok(c)

----------------------------------------------------------------------------
(* The order of the pre-passes in _fill_docx, and the keys each reads.     *)

PassNames ==
    <<"contact", "funding", "drugs", "initiation", "student", "radiation",
      "scro", "ibc", "phs", "population", "recruitment", "consent">>

NumPasses == Len(PassNames)

RunPass(i, d, fl) ==
    CASE i = 1 -> FillContact(d, fl)
      [] i = 2 -> FillFunding(d, fl)
      [] i = 3 -> FillDrugs(d, fl)
      [] i = 4 -> FillInitiation(d, fl)
      [] i = 5 -> FillStudent(d, fl)
      [] i = 6 -> FillRadiation(d, fl)
      [] i = 7 -> FillScro(d, fl)
      [] i = 8 -> FillIbc(d, fl)
      [] i = 9 -> FillPhs(d, fl)
      [] i = 10 -> FillPopulation(d, fl)
      [] i = 11 -> FillRecruitment(d, fl)
      [] OTHER -> FillConsent(d, fl)

KeysOf(group, names) == {K(group, n) : n \in names}

PassKeys(i) ==
    CASE i = 1 -> {contact_fields[j] : j \in 1..Len(contact_fields)}
      [] i = 2 -> KeysOf("funding", {"intramural_dept", "extramural_sponsor", "federally_funded"})
      [] i = 3 -> KeysOf("study", {"drugs_biologics_devices", "fda_regulations_apply",
                                    "ind_number", "ide_number", "phase", "phase_other",
                                    "schedule_drugs", "schedule_drugs_approval"})
      [] i = 4 -> KeysOf("study", {"initiated_by", "initiated_other"})
      [] i = 5 -> KeysOf("study", {"is_student_project"})
      [] i = 6 -> KeysOf("study", {"ionizing_radiation", "radiation_direct_benefit",
                                    "radiation_routine", "radiation_greater_dose"})
      [] i = 7 -> KeysOf("study", {"scro_required"})
      [] i = 8 -> KeysOf("study", {"ibc_infectious", "ibc_recombinant", "ibc_hazardous"})
      [] i = 9 -> KeysOf("study", {"phs_submission"})
      [] i = 10 -> KeysOf("population", {"vulnerable", "special", "special_other",
                                          "other_populations", "other_populations_other"})
      [] i = 11 -> KeysOf("recruitment", {"source", "source_other", "flyers_used",
                                           "verbal_used", "electronic_used",
                                           "electronic_description"})
      [] OTHER -> KeysOf("consent", {"timing", "documents_required", "waiver_requested",
                                      "inducement"})

----------------------------------------------------------------------------
(* DocumentService._fill_docx: the generic per-field loop and its writers. *)

\* DocumentService._fill_checkbox_field
FillCheckboxField(d, selected_values, fdef) ==
    LET option_labels == DictOf([i \in 1..Len(fdef.options) |->
                                    Entry(fdef.options[i].value, fdef.options[i].label)])
        matches(para) == {i \in 1..Len(option_labels) :
                             ContainsCI(Strip(ParaText(para)), option_labels[i].v)}
        opt(para) == option_labels[CHOOSE i \in matches(para) : \A j \in matches(para) : i <= j]
        val(sel) == IF sel THEN "1" ELSE "0"
        form_field(run, sel) ==
            IF run.box.has
            THEN [run EXCEPT !.box.dflt = val(sel),
                             !.box.chk = IF @ # "none" THEN val(sel) ELSE @]
            ELSE run
        symbol(run, sel) ==
            IF Contains(run.t, <<GlyphUnchecked>>)
            THEN [run EXCEPT !.t = ReplaceAll(@, <<GlyphUnchecked>>,
                                  <<IF sel THEN GlyphChecked ELSE GlyphUnchecked>>)]
            ELSE IF Contains(run.t, <<GlyphWhiteSquare>>)
            THEN [run EXCEPT !.t = ReplaceAll(@, <<GlyphWhiteSquare>>,
                                  <<IF sel THEN GlyphBlackSquare ELSE GlyphWhiteSquare>>)]
            ELSE run
        update(para) ==
            IF matches(para) = {} THEN para
            ELSE LET is_selected == InList(opt(para).k, selected_values)
                 IN [i \in 1..Len(para) |-> symbol(form_field(para[i], is_selected), is_selected)]
    IN Ok([d EXCEPT !.paras = [i \in 1..Len(@) |-> update(@[i])]])

\* a field without an "anchor" key
NoAnchor == None

\* DocumentService._write_value_to_anchor
WriteValueToAnchor(d, anchor, value, fdef) ==
    CASE anchor.type = "paragraph" -> FillParagraphAnchor(d, anchor, value, fdef)
      [] anchor.type = "table_cell" -> FillTableCellAnchor(d, anchor, value, fdef)
      [] anchor.type = "table" -> FillTableAnchor(d, anchor, value, fdef)
      [] OTHER -> Ok(d)

\* field_map.get(field_id): of several fields with one id the last one
HasField(sch, id) == \E i \in 1..Len(sch.fields) : sch.fields[i].id = id

FieldOf(sch, id) ==
    sch.fields[CHOOSE i \in 1..Len(sch.fields) :
                  /\ sch.fields[i].id = id
                  /\ \A j \in (i + 1)..Len(sch.fields) : sch.fields[j].id # id]

\* whether the loop hands the entry to a writer
Dispatched(sch, e) ==
    LET handed(field_def) ==
            \/ field_def.type = "checkbox" /\ IsList(e.v)
            \/ field_def.anchor # NoAnchor
    IN /\ \A i \in 1..Len(contact_fields) : e.k # contact_fields[i]
       /\ ~StartsWith(e.k, <<"_">>)
       /\ HasField(sch, e.k)
       /\ handed(FieldOf(sch, e.k))

\* one iteration of the loop over flat_data.items()
FillField(d, sch, e) ==
    LET write(field_def) ==
            IF field_def.type = "checkbox" /\ IsList(e.v)
            THEN FillCheckboxField(d, e.v, field_def)
            ELSE WriteValueToAnchor(d, field_def.anchor[1], e.v, field_def)
    IN IF ~Dispatched(sch, e) THEN Ok(d) ELSE write(FieldOf(sch, e.k))

\* _fill_docx from the opened copy to the point of saving, as one function of
\* the template content, the schema and flat_data
FillFlat(tdoc, sch, fl) ==
    LET RECURSIVE passes(_, _)
        passes(r, i) == IF ~r.ok \/ i > NumPasses THEN r
                        ELSE passes(RunPass(i, r.doc, fl), i + 1)
        RECURSIVE loop(_, _)
        loop(r, j) == IF ~r.ok \/ j > Len(fl) THEN r
                      ELSE loop(FillField(r.doc, sch, fl[j]), j + 1)
    IN loop(passes(Ok(tdoc), 1), 1)

----------------------------------------------------------------------------
(* The steps of _fill_docx.                                                *)

\* shutil.copy(template_path, output_path); Document(output_path); _flatten_dict(data)
OpenTemplate ==
    /\ pc = "idle"
    /\ outfile' = [exists |-> TRUE, doc |-> template]
    /\ doc' = template
    /\ flat' = FlattenDict(data)
    /\ pc' = "prepass"
    /\ idx' = 1
    /\ UNCHANGED <<template, schema, data, handled, written, call, db, files, clock, procs>>

\* the next composite pre-pass
PrePass ==
    /\ pc = "prepass"
    /\ \E r \in {RunPass(idx, doc, flat)} :
          /\ doc' = r.doc
          /\ handled' = handled \cup
                (IF r.doc # doc THEN {k \in PassKeys(idx) : HasKey(flat, k)} ELSE {})
          /\ pc' = IF ~r.ok THEN "raised" ELSE IF idx = NumPasses THEN "loop" ELSE "prepass"
          /\ idx' = IF r.ok /\ idx < NumPasses THEN idx + 1 ELSE 1
    /\ UNCHANGED <<template, outfile, schema, data, flat, written, call, db, files, clock, procs>>

\* the next iteration of `for field_id, value in flat_data.items()`
FillNextField ==
    /\ pc = "loop"
    /\ idx <= Len(flat)
    /\ \E r \in {FillField(doc, schema, flat[idx])} :
          /\ doc' = r.doc
          /\ pc' = IF r.ok THEN "loop" ELSE "raised"
    /\ written' = written \cup (IF Dispatched(schema, flat[idx]) THEN {flat[idx].k} ELSE {})
    /\ idx' = idx + 1
    /\ UNCHANGED <<template, outfile, schema, data, flat, handled, call, db, files, clock, procs>>

\* SaveDocument writing to template_path instead of output_path
SaveOverTemplate ==
    /\ pc = "loop"
    /\ idx > Len(flat)
    /\ template' = doc
    /\ pc' = "done"
    /\ UNCHANGED <<outfile, doc, schema, data, flat, idx, handled, written, call, db, files, clock, procs>>

\* doc.save(output_path)
SaveDocument ==
    /\ pc = "loop"
    /\ idx > Len(flat)
    /\ outfile' = [exists |-> TRUE, doc |-> doc]
    /\ pc' = "done"
    /\ UNCHANGED <<template, doc, schema, data, flat, idx, handled, written, call, db, files, clock, procs>>

----------------------------------------------------------------------------
(* TemplateService.extract_schema_from_docx                                *)

RomanAtoms == {"I", "V", "X", "L", "C", "i", "v", "x", "l", "c"}

\* re.match(r'^([IVXLC]+)\.\s+(.+)$', text, IGNORECASE) on a stripped text:
\* the length of group 1, 0 when the pattern does not match
RomanMatch(text) ==
    LET RECURSIVE run(_)
        run(i) == IF i <= Len(text) /\ text[i] \in RomanAtoms THEN 1 + run(i + 1) ELSE 0
        n == run(1)
    IN IF /\ n >= 1
          /\ Len(text) >= n + 3
          /\ text[n + 1] = "."
          /\ IsWs(text[n + 2])
          /\ \A i \in (n + 3)..Len(text) : text[i] # "\n"
       THEN n ELSE 0

SecPrefix == <<"s", "e", "c", "_">>

\* f"sec_{roman_match.group(1).upper()}"
SectionId(text) == SecPrefix \o [i \in 1..RomanMatch(text) |-> UpperAtom(text[i])]

\* re.match(r'^(.+?):\s*(_+|$)', text): the position of the colon that ends
\* group 1, 0 when the pattern does not match
FieldLabelMatch(text) ==
    LET after(i) == i + 1 + LeadWs(SubSeq(text, i + 1, Len(text)))
        ok(i) == /\ text[i] = ":"
                 /\ \A j \in 1..(i - 1) : text[j] # "\n"
                 /\ after(i) > Len(text) \/ text[after(i)] = "_"
    IN IF \E i \in 2..Len(text) : ok(i)
       THEN CHOOSE i \in 2..Len(text) : ok(i) /\ \A j \in 2..(i - 1) : ~ok(j)
       ELSE 0

\* the characters re.sub(r'[^a-zA-Z0-9\s]', '', ...) removes; a word or
\* phrase atom counts as letters
Punctuation ==
    {".", ":", "?", "_", ",", "|", "-", "/", "#", "(", ")", BadEscape} \cup CheckboxGlyphs

\* re.sub(r'\s+', sep, text)
CollapseWs(text, sep) ==
    LET RECURSIVE go(_)
        go(i) == IF i > Len(text) THEN <<>>
                 ELSE IF IsWs(text[i])
                 THEN IF i > 1 /\ IsWs(text[i - 1]) THEN go(i + 1) ELSE sep \o go(i + 1)
                 ELSE <<text[i]>> \o go(i + 1)
    IN go(1)

MaxIdLen == 50

\* GenerateFieldId with the section id lower-cased together with the label
GenerateFieldIdLowerSection(label, section_id) ==
    LET clean == CollapseWs(Strip(SelectSeq(Lower(label), LAMBDA a : a \notin Punctuation)),
                            <<"_">>)
    IN Lower(section_id) \o <<".">> \o SubSeq(clean, 1, Min(Len(clean), MaxIdLen))

\* TemplateService._generate_field_id
GenerateFieldId(label, section_id) ==
    LET clean == CollapseWs(Strip(SelectSeq(Lower(label), LAMBDA a : a \notin Punctuation)),
                            <<"_">>)
    IN section_id \o <<".">> \o SubSeq(clean, 1, Min(Len(clean), MaxIdLen))

Numerals == <<"0", "1", "2", "3", "4", "5", "6", "7", "8", "9", "10", "11", "12">>

\* str(i) for a small i
Numeral(i) == Numerals[i + 1]

\* re.split(checkbox_chars, text)
SplitAtGlyphs(text) ==
    LET RECURSIVE go(_, _)
        go(i, part) ==
            IF i > Len(text) THEN <<part>>
            ELSE IF text[i] \in CheckboxGlyphs THEN <<part>> \o go(i + 1, <<>>)
            ELSE go(i + 1, Append(part, text[i]))
    IN go(1, <<>>)

\* label.split('\n')[0]
FirstLine(t) == IF Find(t, <<"\n">>) = 0 THEN t ELSE SubSeq(t, 1, Find(t, <<"\n">>) - 1)

\* TemplateService._extract_checkbox_options
ExtractCheckboxOptions(text) ==
    LET option(parts, i) ==
            [value |-> <<"option", "_", Numeral(i - 1)>>,
             label |-> Strip(FirstLine(CollapseWs(Strip(parts[i]), <<" ">>)))]
        options(parts, kept) == [k \in 1..Len(kept) |-> option(parts, kept[k])]
        labelled(parts) ==
            options(parts, SelectSeq([j \in 1..Len(parts) |-> j],
                                     LAMBDA j : j >= 2 /\ Strip(parts[j]) # <<>>))
    IN labelled(SplitAtGlyphs(text))

\* str.rstrip(':')
RstripColons(t) ==
    LET RECURSIVE n(_)
        n(i) == IF i >= 1 /\ t[i] = ":" THEN 1 + n(i - 1) ELSE 0
    IN SubSeq(t, 1, Len(t) - n(Len(t)))

AnchorTextLen == 50

\* the label of a checkbox field: the text before the first option label
CheckboxLabel(text, options) ==
    LET head(at) == IF at = 0 THEN text ELSE SubSeq(text, 1, at - 1)
        or_default(label) == IF label = <<>> THEN <<"Options">> ELSE label
    IN or_default(RstripColons(Strip(head(Find(text, options[1].label)))))

\* the loop over doc.paragraphs: [sections, fields, current (a section or None)]
ExtractParagraphs(d) ==
    LET text_field(label, section_id, para_idx, order) ==
            [Field(GenerateFieldId(label, section_id), "text", label, section_id,
                   Some(Anchor("paragraph", [paragraph_contains |-> label,
                                             paragraph_index |-> Some(para_idx)])))
                EXCEPT !.order = order]
        checkbox_field(text, options, label, section_id, para_idx, order) ==
            [Field(GenerateFieldId(label, section_id), "checkbox", label, section_id,
                   Some(Anchor("paragraph",
                               [paragraph_contains |-> SubSeq(text, 1, Min(Len(text), AnchorTextLen)),
                                paragraph_index |-> Some(para_idx)])))
                EXCEPT !.order = order, !.options = options]
        with_text(st, para_idx, text, m) ==
            IF m # 0 /\ st.current # None
            THEN Append(st.fields,
                        text_field(Strip(SubSeq(text, 1, m - 1)), st.current[1].id, para_idx,
                                   Len(st.fields)))
            ELSE st.fields
        with_box(st, para_idx, text, fields, options) ==
            IF /\ \E j \in 1..Len(text) : text[j] \in CheckboxGlyphs
               /\ st.current # None
               /\ options # <<>>
            THEN Append(fields,
                        checkbox_field(text, options, CheckboxLabel(text, options),
                                       st.current[1].id, para_idx, Len(fields)))
            ELSE fields
        open(st, sec) == [st EXCEPT !.sections = Append(@, sec), !.current = Some(sec)]
        step(st, para_idx, text) ==
            IF text = <<>> THEN st
            ELSE IF RomanMatch(text) # 0
            THEN open(st, [id |-> SectionId(text), title |-> text, order |-> Len(st.sections)])
            ELSE [st EXCEPT !.fields =
                     with_box(st, para_idx, text,
                              with_text(st, para_idx, text, FieldLabelMatch(text)),
                              ExtractCheckboxOptions(text))]
        RECURSIVE go(_, _)
        go(st, i) == IF i > Len(d.paras) THEN st
                     ELSE go(step(st, i - 1, Strip(ParaText(d.paras[i]))), i + 1)
    IN go([sections |-> <<>>, fields |-> <<>>, current |-> None], 1)

\* data_headers written with capitals, as the header cells are
DataHeadersCapitalised ==
    { <<"N","a","m","e">>, <<"T","i","t","l","e">>, <<"R","o","l","e">>,
      <<"D","a","t","e">>, <<"E","m","a","i","l">>, <<"P","h","o","n","e">> }

DataHeaders ==
    { <<"n","a","m","e">>, <<"t","i","t","l","e">>, <<"r","o","l","e">>,
      <<"d","a","t","e">>, <<"e","m","a","i","l">>, <<"p","h","o","n","e">> }

SecGeneral == SecPrefix \o <<"g","e","n","e","r","a","l">>

MinRowsOfDataTable == 2
LabelRowCells == 2
ValueColumn == 1

\* TemplateService._extract_table_fields
ExtractTableFields(table, table_idx, current_section, start_order) ==
    LET section_id == IF current_section # None THEN current_section[1].id ELSE SecGeneral
        is_data_table(headers) ==
            \E j \in 1..Len(headers) : \E h \in DataHeaders : Contains(Lower(headers[j]), h)
        columns(headers, named) ==
            [k \in 1..Len(named) |->
                [id |-> Some(DefaultColumnIds[named[k]]), label |-> headers[named[k]]]]
        repeatable(headers) ==
            [Field(section_id \o <<".", "t","a","b","l","e","_", Numeral(table_idx)>>,
                   "repeatable", <<"Table Data">>, section_id,
                   Some(Anchor("table", [table_index |-> Some(table_idx),
                                         header_text |-> IF headers # <<>> THEN headers[1]
                                                         ELSE <<>>])))
                EXCEPT !.order = start_order,
                       !.repeatable_config =
                           [columns |-> columns(headers,
                                                SelectSeq([j \in 1..Len(headers) |-> j],
                                                          LAMBDA j : headers[j] # <<>>)),
                            column_mapping |-> None]]
        trimmed(raw) == IF raw # <<>> /\ EndsWith(raw, <<":">>)
                        THEN SubSeq(raw, 1, Len(raw) - 1) ELSE raw
        label(row) == trimmed(Strip(CellText(row[1])))
        has_field(i) == Len(table.rows[i]) >= LabelRowCells /\ label(table.rows[i]) # <<>>
        cell_field(row_idx, text) ==
            [Field(GenerateFieldId(text, section_id), "text", text, section_id,
                   Some(Anchor("table_cell", [table_index |-> Some(table_idx),
                                              row_index |-> Some(row_idx),
                                              column_index |-> Some(ValueColumn),
                                              label_text |-> text])))
                EXCEPT !.order = start_order + row_idx]
        cell_fields(labelled) ==
            [k \in 1..Len(labelled) |->
                cell_field(labelled[k] - 1, label(table.rows[labelled[k]]))]
        classify(headers) ==
            IF is_data_table(headers) THEN <<repeatable(headers)>>
            ELSE cell_fields(SelectSeq([i \in 1..Len(table.rows) |-> i], has_field))
    IN IF Len(table.rows) < MinRowsOfDataTable THEN <<>>
       ELSE classify([j \in 1..Len(table.rows[1]) |-> Strip(CellText(table.rows[1][j]))])

OtherWord == <<"o","t","h","e","r">>

\* TemplateService._generate_default_rules
GenerateDefaultRules(fields) ==
    LET has_other(f) ==
            /\ f.type \in {"checkbox", "select", "radio"}
            /\ \E i \in 1..Len(f.options) : Contains(Lower(f.options[i].label), OtherWord)
        other_field_exists(f) ==
            \E i \in 1..Len(fields) :
                \/ fields[i].id = f.id \o <<"_">> \o OtherWord
                \/ Contains(Lower(fields[i].id), OtherWord)
        rule(f) == [id |-> <<"r","u","l","e","_">> \o f.id \o <<"_">> \o OtherWord,
                    field |-> f.id,
                    operator |-> "contains",
                    value |-> OtherWord,
                    target |-> f.id \o <<"_","s","p","e","c","i","f","y">>,
                    then_actions |-> <<"show">>,
                    else_actions |-> <<"hide", "clear">>]
        emits == SelectSeq([i \in 1..Len(fields) |-> i],
                           LAMBDA i : has_other(fields[i]) /\ ~other_field_exists(fields[i]))
    IN [k \in 1..Len(emits) |-> rule(fields[emits[k]])]

\* TemplateService.extract_schema_from_docx
ExtractSchemaFromDocx(d) ==
    LET RECURSIVE tables(_, _, _)
        tables(fields, current, t) ==
            IF t > Len(d.tables) THEN fields
            ELSE tables(fields \o ExtractTableFields(d.tables[t], t - 1, current, Len(fields)),
                        current, t + 1)
        assemble(sections, fields) ==
            [sections |-> sections, fields |-> fields, rules |-> GenerateDefaultRules(fields)]
        finish(p) == assemble(p.sections, tables(p.fields, p.current, 1))
    IN finish(ExtractParagraphs(d))

\* the upload of a template: the schema is extracted from the stored file
ExtractSchema ==
    /\ pc = "upload"
    /\ schema' = ExtractSchemaFromDocx(template)
    /\ pc' = "idle"
    /\ UNCHANGED <<template, outfile, doc, data, flat, idx, handled, written, call, db, files, clock, procs>>

----------------------------------------------------------------------------
(* The documents the fill runs on: a research protocol form laid out as    *)
(* the pre-passes expect it (the paragraph and table positions are those   *)
(* named in the comments of _fill_docx), cut to several lengths.           *)

NewBox == BoxRun("0", "none")
Placeholder == TextRun(<<ENSP, ENSP, ENSP, ENSP, ENSP>>)

\* a paragraph with one checkbox before its text
BoxPara(t) == <<NewBox, TextRun(t)>>

\* a paragraph with a No and a Yes checkbox
PairPara(t) == <<NewBox, TextRun(<<"No", " ">>), NewBox, TextRun(<<"Yes", ":", " ">> \o t)>>

OtherPara == <<NewBox, TextRun(<<"Other", ",", " ", "specify", ":">>), Placeholder>>

NameOfPerson == <<"A","d","a"," ","L","o","v","e","l","a","c","e">>

\* doc.paragraphs[i] of the full form
FormParagraph(i) ==
    CASE i = 0 -> P(<<"I", ".", " ", "P","e","r","s","o","n","n","e","l">>)
      [] i = 1 -> P(<<"N","a","m","e", ":", " ", "_", "_", "_", "_">>)
      [] i = 2 -> P(<<"T","i","t","l","e", ":">>)
      [] i = 3 -> P(<<"R","o","l","e", ":", " ", GlyphUnchecked, " ", "P","I", " ",
                     GlyphUnchecked, " ", "O","t","h","e","r">>)
      [] i = 4 -> P(<<"i","i", ".", " ", "S","t","u","d","y">>)
      [] i = 5 -> P(<<"W","h","y", "?">>)
      [] i = 14 -> BoxPara(<<"Local investigator">>)
      [] i = 15 -> BoxPara(<<"sponsor-investigator">>)
      [] i = 16 -> BoxPara(<<"Cooperative group">>)
      [] i = 17 -> BoxPara(<<"External sponsor">>)
      [] i = 18 -> OtherPara
      [] i = 20 -> P(<<"1", ".", " ", "drugs", " ", ",", " ", "biologics", " ", ",", " ",
                      "devices", " ", " ", "are studied">>)
      [] i = 21 -> P(<<"No">>)
      [] i = 22 -> P(<<"Yes", ":", " ", "do fda regulations apply", "?">>)
      [] i = 23 -> P(<<"Yes", ":", " ", " ", "Provide IND#", " ">> \o Blank6
                     \o <<" ", " ", "IDE#", " ">> \o Blank6)
      [] i = 24 -> P(<<"No", ":", " ", "exempt">>)
      [] i = 25 -> P(<<"2", ".", " ", " ", "Check appropriately", ":">>)
      [] i = 27 -> P(<<"No">>)
      [] i = 28 -> P(<<"Yes", ":", " ", "approval needed">>)
      [] i = 31 -> P(<<"is this a", " ", "student project", "?">>)
      [] i = 32 -> <<TextRun(<<" ">>), NewBox, TextRun(<<"No", " ", " ">>), NewBox,
                     TextRun(<<"Yes">>)>>
      [] i \in {35, 38, 41, 44} -> BoxPara(<<"No", ":", " ", "review">>)
      [] i \in {36, 39, 42, 45} -> BoxPara(<<"Yes", ":", " ", "review">>)
      [] i = 47 -> PairPara(<<"letter of approval from", " ", "SCRO">>)
      [] i = 48 -> PairPara(<<"letter of approval from", " ", "IBC">>)
      [] i = 49 -> PairPara(<<"recombinant or synthetic">>)
      [] i = 50 -> PairPara(<<"carcinogens">>)
      [] i = 51 -> PairPara(<<"phs policy">>)
      [] i = 52 -> BoxPara(<<"PI/collaborators will recruit">>)
      [] i = 53 -> BoxPara(<<"asking for referrals">>)
      [] i = 54 -> BoxPara(<<"Dear Patient">>)
      [] i = 55 -> OtherPara
      [] i = 56 -> PairPara(<<"flyers", " ", "attach copy">>)
      [] i = 57 -> PairPara(<<"verbal", " ", "script">>)
      [] i = 58 -> <<NewBox, TextRun(<<"No", " ">>), NewBox,
                     TextRun(<<"Yes", ",", " ", "describe", ":">>), Placeholder>>
      [] i = 59 -> <<TextRun(<<"relative to the performance", ":", " ">>), NewBox,
                     TextRun(<<"in conjunction", " ">>), NewBox, TextRun(<<"apart">>)>>
      [] i = 60 -> BoxPara(<<"informed consent document">>)
      [] i = 61 -> BoxPara(<<"waiver of consent">>)
      [] i = 62 -> <<TextRun(<<"inducement", " ", "offered", ":">>), Placeholder>>
      [] OTHER -> <<>>

FormParagraphs == 63

OneParaCell(t) == <<P(t)>>

\* doc.tables[t] of the full form
FormTable(t) ==
    CASE t = 0 ->
            Table(1, [r \in 1..(FundingRow + 1) |->
                        IF r = FundingRow + 1
                        THEN << <<P(<<"department or fund", "?">>),
                                  P(<<"name of the sponsor", "?">>),
                                  P(<<"federally funded", "?">>)>> >>
                        ELSE <<NewCell>>])
      [] t = 1 ->
            Table(1, [r \in 1..(ContactRow + 1) |->
                        IF r = ContactRow + 1 THEN <<OneParaCell(<<"contact person">>)>>
                        ELSE <<NewCell>>])
      [] t = 2 ->
            Table(3, [r \in 1..(PopulationRow + 1) |->
                        IF r = PopulationRow + 1
                        THEN << <<BoxPara(<<"minors">>), BoxPara(<<"prisoners">>)>>,
                                <<BoxPara(<<"elderly">>), OtherPara>>,
                                <<BoxPara(<<"students">>), OtherPara>> >>
                        ELSE <<NewCell, NewCell, NewCell>>])
      [] OTHER ->
            Table(2, << <<OneParaCell(<<"n","a","m","e">>), OneParaCell(<<"r","o","l","e">>)>>,
                        <<NewCell, NewCell>> >>)

FormTables == 4

\* the form cut after np paragraphs and nt tables
FormDoc(np, nt) ==
    [paras |-> [i \in 1..np |-> FormParagraph(i - 1)],
     tables |-> [t \in 1..nt |-> FormTable(t - 1)]]

\* <<paragraphs, tables>> of the documents filled
FormShapes == { <<2, 0>>, <<30, 1>>, <<40, 3>>, <<FormParagraphs, FormTables>> }

----------------------------------------------------------------------------
(* Specification Spec: _fill_docx on the form, for hand-written schemas    *)
(* and data maps put together from groups of entries.                      *)

MaxDataGroups == 2

S(t) == StrV(<<t>>)
Words(ws) == ListV([i \in 1..Len(ws) |-> ws[i]])

\* the groups of entries a data map is made of, in the order they are inserted
DataGroups ==
    << <<Entry(K("personnel", "pi_name"), StrV(NameOfPerson))>>,
       <<Entry(<<"personnel">>,
               DictV(<<Entry(<<"contact_name">>, StrV(NameOfPerson)),
                       Entry(<<"contact_email">>, S("ada@example"))>>))>>,
       <<Entry(K("funding", "intramural_dept"), S("physics")),
         Entry(K("funding", "federally_funded"), S("yes"))>>,
       <<Entry(K("study", "drugs_biologics_devices"), Words(<< <<"drugs">>, <<"devices">> >>)),
         Entry(K("study", "fda_regulations_apply"), S("yes")),
         Entry(K("study", "phase"), Words(<< <<"phase1">>, <<"other">> >>))>>,
       <<Entry(K("study", "schedule_drugs"), S("no"))>>,
       <<Entry(K("study", "ionizing_radiation"), S("yes")),
         Entry(K("study", "radiation_direct_benefit"), S("yes"))>>,
       <<Entry(K("study", "initiated_by"), S("other")),
         Entry(K("study", "initiated_other"), S("a registry")),
         Entry(K("study", "is_student_project"), S("yes")),
         Entry(K("study", "scro_required"), S("no")),
         Entry(K("study", "ibc_infectious"), S("yes")),
         Entry(K("study", "ibc_recombinant"), S("no")),
         Entry(K("study", "ibc_hazardous"), S("yes")),
         Entry(K("study", "phs_submission"), S("yes"))>>,
       <<Entry(K("population", "vulnerable"), Words(<< <<"minors">> >>)),
         Entry(K("population", "special"), Words(<< <<"elderly">> >>)),
         Entry(K("population", "special_other"), S("veterans")),
         Entry(K("population", "other_populations"), Words(<< <<"students">> >>))>>,
       <<Entry(K("recruitment", "source"), Words(<< <<"own", "_", "patients">>, <<"other">> >>)),
         Entry(K("recruitment", "source_other"), S("radio")),
         Entry(K("recruitment", "flyers_used"), S("yes")),
         Entry(K("recruitment", "verbal_used"), S("no")),
         Entry(K("recruitment", "electronic_used"), S("yes")),
         Entry(K("recruitment", "electronic_description"), S("a web page"))>>,
       <<Entry(K("consent", "timing"), S("separate")),
         Entry(K("consent", "documents_required"), Words(<< <<"informed", "_", "consent">> >>)),
         Entry(K("consent", "waiver_requested"), Words(<< <<"waiver", "_", "consent">> >>)),
         Entry(K("consent", "inducement"), S("a voucher"))>>,
       <<Entry(K("study", "team"),
               RowsV(<<RowDict([c \in {"col_0", "col_1"} |-> <<c>>])>>)),
         Entry(K("study", "sites"), Words(<< <<"local">> >>)),
         Entry(K("study", "title"), S("a trial"))>>,
       <<Entry(<<"nickname">>, S("countess")),
         Entry(<<"_", "draft">>, S("yes"))>> >>

\* the data maps: the entries of at most MaxDataGroups groups
DataMaps ==
    {ConcatAll([i \in 1..Len(g) |-> DataGroups[g[i]]]) :
        g \in {h \in UNION {[1..k -> 1..Len(DataGroups)] : k \in 0..MaxDataGroups} :
                  \A i \in 1..(Len(h) - 1) : h[i] < h[i + 1]}}

\* the fields the hand-written schemas are made of
PiNameField ==
    Field(K("personnel", "pi_name"), "text", <<"N","a","m","e">>, <<"personnel">>,
          Some(Anchor("paragraph", [paragraph_contains |-> <<"N","a","m","e">>])))

ContactNameField ==
    Field(K("personnel", "contact_name"), "text", <<"contact">>, <<"personnel">>,
          Some(Anchor("paragraph", [paragraph_index |-> Some(0)])))

IntramuralField ==
    Field(K("funding", "intramural_dept"), "text", <<"department">>, <<"funding">>,
          Some(Anchor("table_cell", [table_index |-> Some(FundingTable),
                                     row_index |-> Some(FundingRow),
                                     column_index |-> Some(0),
                                     append_to_label |-> TRUE])))

TeamField ==
    [Field(K("study", "team"), "repeatable", <<"team">>, <<"study">>,
           Some(Anchor("table", [table_index |-> Some(3),
                                 start_row |-> Some(3)])))
        EXCEPT !.repeatable_config =
            [columns |-> <<[id |-> None, label |-> <<"name">>],
                           [id |-> None, label |-> <<"role">>]>>,
             column_mapping |-> None]]

SitesField ==
    [Field(K("study", "sites"), "checkbox", <<"sites">>, <<"study">>, NoAnchor)
        EXCEPT !.options = <<[value |-> <<"local">>, label |-> <<"Local investigator">>],
                             [value |-> <<"external">>, label |-> <<"External sponsor">>]>>]

TitleField == Field(K("study", "title"), "text", <<"title">>, <<"study">>, NoAnchor)

SchemaOf(fields) == [sections |-> <<>>, fields |-> fields, rules |-> <<>>]

Schemas ==
    {EmptySchema,
     SchemaOf(<<PiNameField, ContactNameField, IntramuralField>>),
     SchemaOf(<<TeamField, SitesField, TitleField>>),
     SchemaOf(<<PiNameField, ContactNameField, IntramuralField, TeamField, SitesField,
                TitleField>>)}

Init ==
    /\ \E shape \in FormShapes : template = FormDoc(shape[1], shape[2])
    /\ schema \in Schemas
    /\ data \in DataMaps
    /\ outfile = NoFile
    /\ doc = EmptyDoc
    /\ flat = <<>>
    /\ pc = "idle"
    /\ idx = 0
    /\ handled = {}
    /\ written = {}
    /\ call = NoCall
    /\ ServicesIdle

Next == OpenTemplate \/ PrePass \/ FillNextField \/ SaveDocument

Spec == Init /\ [][Next]_vars

\* C2: once the copy is open the fill returns, whatever the document, the schema and
\* the data map: no step of _fill_docx raises.
C2_FillIsTotal == pc # "raised"

\* flat_data without its i-th entry
WithoutEntry(fl, i) == SubSeq(fl, 1, i - 1) \o SubSeq(fl, i + 1, Len(fl))

\* C3: a key of the data map that is the id of no field of the schema has no effect:
\* the fill ends as it ends without the key, with the same document content.
C3_UnknownKeysIgnored ==
    pc \in {"done", "raised"}
        => \A i \in 1..Len(flat) :
              ~HasField(schema, flat[i].k)
                 => /\ pc = "done"
                    /\ FillFlat(template, schema, WithoutEntry(flat, i)) = Ok(doc)

\* C9: no field id that a composite pre-pass consumed to write the document is
\* handed to a writer by the generic per-field loop.
C9_PrePassFieldsSkipped == handled \cap written = {}

\* C10: no step of _fill_docx changes the file at template_path, the schema or the
\* data map.
C10_InputsUnchanged ==
    [][template' = template /\ schema' = schema /\ data' = data]_vars

\* C10 witness: a fill that changed the document has saved it to output_path, and
\* the template file still has the content it was copied from
C10_Witness ==
    /\ pc = "done"
    /\ outfile = [exists |-> TRUE, doc |-> doc]
    /\ doc # template
    /\ written # {}
    /\ handled # {}

----------------------------------------------------------------------------
(* Specification SpecRoundTrip: a template is uploaded, its schema is     *)
(* extracted, and the template is filled with data keyed by field ids.     *)

MaxRoundTripParas == 6

SecIName == SecPrefix \o <<"I", ".", "n","a","m","e">>
SecITitle == SecPrefix \o <<"I", ".", "t","i","t","l","e">>
SecIRole == SecPrefix \o <<"I", ".", "r","o","l","e">>

RoundTripGroups ==
    << <<Entry(SecIName, StrV(NameOfPerson))>>,
       <<Entry(Lower(SecIName), StrV(NameOfPerson))>>,
       <<Entry(SecITitle, StrV(NameOfPerson))>>,
       <<Entry(SecIRole, ListV(<< <<"option", "_", "1">> >>))>> >>

RoundTripMaps ==
    {ConcatAll([i \in 1..Len(g) |-> RoundTripGroups[g[i]]]) :
        g \in {h \in UNION {[1..k -> 1..Len(RoundTripGroups)] : k \in 0..MaxDataGroups} :
                  \A i \in 1..(Len(h) - 1) : h[i] < h[i + 1]}}

InitRoundTrip ==
    /\ \E np \in 0..MaxRoundTripParas : template = FormDoc(np, 0)
    /\ schema = EmptySchema
    /\ data \in RoundTripMaps
    /\ outfile = NoFile
    /\ doc = EmptyDoc
    /\ flat = <<>>
    /\ pc = "upload"
    /\ idx = 0
    /\ handled = {}
    /\ written = {}
    /\ call = NoCall
    /\ ServicesIdle

NextRoundTrip == ExtractSchema \/ OpenTemplate \/ PrePass \/ FillNextField \/ SaveDocument

SpecRoundTrip == InitRoundTrip /\ [][NextRoundTrip]_vars

\* the template of C1: 'I. Personnel' followed by 'Name: ____'
PersonnelTemplate == FormDoc(2, 0)

NameLineFilled == <<"N","a","m","e", ":", " ">> \o NameOfPerson

\* extraction gave exactly one field: a text field of section sec_I with a paragraph anchor
OneTextField ==
    /\ Len(schema.fields) = 1
    /\ schema.fields[1].type = "text"
    /\ schema.fields[1].section_id = SecPrefix \o <<"I">>
    /\ schema.fields[1].anchor # NoAnchor
    /\ schema.fields[1].anchor[1].type = "paragraph"

\* C1 as stated: the template 'I. Personnel', 'Name: ____' yields one text field of
\* section sec_I with a paragraph anchor, and the fill with {"sec_i.name": "Ada Lovelace"}
\* makes the second paragraph read 'Name: Ada Lovelace'.
C1_RoundTripLowerId ==
    (/\ pc = "done"
     /\ template = PersonnelTemplate
     /\ data = <<Entry(Lower(SecIName), StrV(NameOfPerson))>>)
        => /\ OneTextField
           /\ ParaText(doc.paras[2]) = NameLineFilled

\* C1 amended: the template yields one text field of section sec_I with a paragraph
\* anchor and the id 'sec_I.name'; the fill with {"sec_I.name": "Ada Lovelace"} makes
\* the second paragraph read 'Name: Ada Lovelace', the fill with the key 'sec_i.name'
\* matches no field and leaves the document as the template.
C1_RoundTripGeneratedId ==
    (pc = "done" /\ template = PersonnelTemplate)
        => /\ OneTextField
           /\ schema.fields[1].id = SecIName
           /\ data = <<Entry(SecIName, StrV(NameOfPerson))>>
                 => /\ ParaText(doc.paras[2]) = NameLineFilled
                    /\ doc.paras[1] = template.paras[1]
           /\ data = <<Entry(Lower(SecIName), StrV(NameOfPerson))>> => doc = template

\* C1 witness: the fill keyed by the generated id has written the name
C1_Witness ==
    /\ pc = "done"
    /\ template = PersonnelTemplate
    /\ OneTextField
    /\ data = <<Entry(schema.fields[1].id, StrV(NameOfPerson))>>
    /\ ParaText(doc.paras[2]) = NameLineFilled

----------------------------------------------------------------------------
(* Specification SpecExtract: TemplateService.extract_schema_from_docx on  *)
(* uploaded documents made of a few paragraphs and tables.                 *)

MaxExtractParas == 3
MaxExtractTables == 2

\* paragraph texts: two headers with the numeral I, three labelled lines, a checkbox line
ExtractLines ==
    { <<"I", ".", " ", "P","e","r","s","o","n","n","e","l">>,
      <<"i", ".", " ", "S","t","u","d","y">>,
      <<"N","a","m","e", ":", " ", "_", "_", "_", "_">>,
      <<"C", ".", ":", " ", "_", "_", "_", "_">>,
      <<"O","t","h","e","r", ":", " ", "_", "_", "_", "_">>,
      <<"R","o","l","e", ":", " ", GlyphUnchecked, " ", "P","I", " ",
        GlyphUnchecked, " ", "O","t","h","e","r">> }

TextRow(texts) == [j \in 1..Len(texts) |-> OneParaCell(texts[j])]

\* a roster with a header row, the header row alone, a table of label and value
\* cells with one unlabelled row, and a table of one column
ExtractTables ==
    { Table(2, << TextRow(<< <<"N","a","m","e">>, <<"S","i","t","e">> >>),
                  <<NewCell, NewCell>> >>),
      Table(2, << TextRow(<< <<"N","a","m","e">>, <<"S","i","t","e">> >>) >>),
      Table(2, << TextRow(<< <<"S","p","o","n","s","o","r", ":">>, <<>> >>),
                  <<NewCell, NewCell>>,
                  TextRow(<< <<"S","i","t","e">>, <<>> >>) >>),
      Table(1, << TextRow(<< <<"S","p","o","n","s","o","r", ":">> >>),
                  TextRow(<< <<"S","i","t","e", ":">> >>) >>) }

ExtractDocs ==
    { [paras |-> [i \in 1..Len(ls) |-> P(ls[i])], tables |-> ts] :
        ls \in TextsUpTo(ExtractLines, MaxExtractParas),
        ts \in TextsUpTo(ExtractTables, MaxExtractTables) }

InitExtract ==
    /\ template \in ExtractDocs
    /\ doc = EmptyDoc
    /\ pc = "upload"
    /\ call = NoCall
    /\ HelperIdle

SpecExtract == InitExtract /\ [][ExtractSchema]_vars

Extracted == pc = "idle"

\* C11: no two fields of an extracted schema have the same id.
C11_FieldIdsUnique ==
    Extracted => \A i, j \in 1..Len(schema.fields) :
                    i # j => schema.fields[i].id # schema.fields[j].id

\* the text with one blank added at the end of the label it holds: before its
\* first colon, at its end when it holds none
PadLabel(t) ==
    IF Find(t, <<":">>) = 0 THEN t \o <<" ">>
    ELSE SubSeq(t, 1, Find(t, <<":">>) - 1) \o <<" ">> \o SubSeq(t, Find(t, <<":">>), Len(t))

\* the documents that differ from d only by trailing whitespace added to the label
\* the field f was extracted from
PaddedDocs(d, f) ==
    LET a == f.anchor[1]
        para == a.paragraph_index[1] + 1
        tbl == a.table_index[1] + 1
        row == a.row_index[1] + 1
        cell_text == d.tables[tbl].rows[row][1][1][1].t
    IN CASE a.type = "paragraph" ->
              { [d EXCEPT !.paras[para] = P(PadLabel(ParaText(d.paras[para])))] }
         [] a.type = "table_cell" ->
              { [d EXCEPT !.tables[tbl].rows[row][1][1][1].t = t] :
                    t \in {PadLabel(cell_text), cell_text \o <<" ">>} }
         [] OTHER -> {}

\* the fields of a schema that have the type of f and were found where f was found
FieldsAt(sch, f) ==
    LET same(g) == /\ g.type = f.type
                   /\ g.anchor[1].type = f.anchor[1].type
                   /\ g.anchor[1].paragraph_index = f.anchor[1].paragraph_index
                   /\ g.anchor[1].table_index = f.anchor[1].table_index
                   /\ g.anchor[1].row_index = f.anchor[1].row_index
    IN {sch.fields[i] : i \in {j \in 1..Len(sch.fields) : same(sch.fields[j])}}

\* C12: a document that differs only by trailing whitespace added to the label of a
\* field yields, at the place of that field, a field with the same id.
C12_IdStableUnderPadding ==
    Extracted =>
        \A k \in 1..Len(schema.fields) :
            \A d2 \in PaddedDocs(template, schema.fields[k]) :
                \E g \in FieldsAt(ExtractSchemaFromDocx(d2), schema.fields[k]) :
                    g.id = schema.fields[k].id

\* the entries of the sections list that have the id
SectionsNamed(sch, id) == {s \in 1..Len(sch.sections) : sch.sections[s].id = id}

\* C13: the section_id of every extracted field is the id of exactly one entry of the
\* sections list, or is the general section with no section open.
C13_OneSectionPerField ==
    Extracted =>
        \A k \in 1..Len(schema.fields) :
            \/ Cardinality(SectionsNamed(schema, schema.fields[k].section_id)) = 1
            \/ /\ schema.fields[k].section_id = SecGeneral
               /\ schema.sections = <<>>

\* the words whose presence in a header cell makes a table a roster
CommonColumnWords ==
    { <<"n","a","m","e">>, <<"t","i","t","l","e">>, <<"r","o","l","e">>,
      <<"d","a","t","e">>, <<"e","m","a","i","l">>, <<"p","h","o","n","e">> }

\* the header row of the table holds one of the common column words
HasCommonHeader(table) ==
    \E j \in 1..Len(table.rows[1]) :
        \E w \in CommonColumnWords : Contains(Lower(CellText(table.rows[1][j])), w)

\* the extracted fields anchored in table t (0-based)
FieldsOfTable(t) ==
    {k \in 1..Len(schema.fields) : schema.fields[k].anchor[1].table_index = Some(t)}

\* the extracted text fields anchored to the value cell of row r (0-based) of table t
FieldsOfRow(t, r) ==
    {k \in FieldsOfTable(t) :
        /\ schema.fields[k].type = "text"
        /\ schema.fields[k].anchor[1].type = "table_cell"
        /\ schema.fields[k].anchor[1].row_index = Some(r)
        /\ schema.fields[k].anchor[1].column_index = Some(1)}

\* the row has a label cell and a value cell, and the label is not blank
IsLabelledRow(row) ==
    /\ Len(row) >= 2
    /\ Strip(CellText(row[1])) \notin {<<>>, <<":">>}

\* C14 as stated: a table whose header row holds a common column word is exactly one
\* repeatable field, and every row of any other table is one text field anchored to
\* {table_index, row_index, column_index = 1}.
C14_EveryRowAField ==
    Extracted =>
        \A t \in 1..Len(template.tables) :
            IF HasCommonHeader(template.tables[t])
            THEN /\ Cardinality(FieldsOfTable(t - 1)) = 1
                 /\ \A k \in FieldsOfTable(t - 1) : schema.fields[k].type = "repeatable"
            ELSE \A r \in 1..Len(template.tables[t].rows) :
                    Cardinality(FieldsOfRow(t - 1, r - 1)) = 1

\* C14 amended: a table of fewer than two rows yields no field; otherwise a header
\* row with a common column word makes the table exactly one repeatable field, and
\* without one the fields of the table are one text field for every row that has at
\* least two cells and a label, anchored to {table_index, row_index, column_index = 1}.
C14_LabelledRowsAreFields ==
    Extracted =>
        \A t \in 1..Len(template.tables) :
            IF Len(template.tables[t].rows) < 2 THEN FieldsOfTable(t - 1) = {}
            ELSE IF HasCommonHeader(template.tables[t])
            THEN /\ Cardinality(FieldsOfTable(t - 1)) = 1
                 /\ \A k \in FieldsOfTable(t - 1) :
                        /\ schema.fields[k].type = "repeatable"
                        /\ schema.fields[k].anchor[1].type = "table"
            ELSE /\ \A r \in 1..Len(template.tables[t].rows) :
                        Cardinality(FieldsOfRow(t - 1, r - 1)) =
                            IF IsLabelledRow(template.tables[t].rows[r]) THEN 1 ELSE 0
                 /\ FieldsOfTable(t - 1) =
                        UNION {FieldsOfRow(t - 1, r - 1) : r \in 1..Len(template.tables[t].rows)}

\* C14 witness: a document with a roster, and a table of labels and values with an
\* unlabelled row, has been extracted
C14_Witness ==
    /\ Extracted
    /\ Len(template.tables) = 2
    /\ HasCommonHeader(template.tables[1])
    /\ Cardinality(FieldsOfTable(0)) = 1
    /\ ~HasCommonHeader(template.tables[2])
    /\ Cardinality(FieldsOfTable(1)) = 2
    /\ \E r \in 1..Len(template.tables[2].rows) : ~IsLabelledRow(template.tables[2].rows[r])

\* a checkbox, select or radio field with an option labelled 'other'
HasOtherOption(f) ==
    /\ f.type \in {"checkbox", "select", "radio"}
    /\ \E i \in 1..Len(f.options) :
          Contains(Lower(f.options[i].label), <<"o","t","h","e","r">>)

SpecifyId(f) == f.id \o <<"_","s","p","e","c","i","f","y">>

\* a field named <field_id>_other or <field_id>_specify is in the schema
HasSpecifySibling(f) ==
    \E i \in 1..Len(schema.fields) :
        schema.fields[i].id \in {f.id \o <<"_","o","t","h","e","r">>, SpecifyId(f)}

ActionsOf(acts) == {acts[i] : i \in 1..Len(acts)}

\* C15: every checkbox, select or radio field with an 'other' option and without a
\* sibling specify field has a rule on it whose then-actions show and require
\* <field_id>_specify and whose else-actions hide and clear it.
C15_OtherRuleEmitted ==
    Extracted =>
        \A k \in 1..Len(schema.fields) :
            (HasOtherOption(schema.fields[k]) /\ ~HasSpecifySibling(schema.fields[k]))
                => \E r \in 1..Len(schema.rules) :
                      /\ schema.rules[r].field = schema.fields[k].id
                      /\ schema.rules[r].target = SpecifyId(schema.fields[k])
                      /\ {"show", "require"} \subseteq ActionsOf(schema.rules[r].then_actions)
                      /\ {"hide", "clear"} \subseteq ActionsOf(schema.rules[r].else_actions)

----------------------------------------------------------------------------
(* DocumentService.generate_documents and _convert_to_pdf: every invocation *)
(* looks the rows up, fills a copy of the template, runs the converter and  *)
(* records the two paths on the version.  Invocations interleave between    *)
(* these steps; the clock advances on its own.                              *)

NumProcs == 2
MaxClock == 2

\* a FormVersion row
Version(number, snapshot, status_at_creation) ==
    [version_number |-> number, data_snapshot |-> snapshot,
     status_at_creation |-> status_at_creation,
     generated_docx_path |-> None, generated_pdf_path |-> None]

\* a FormInstance row
FormRow(status, title, owner_id, current_version_number) ==
    [status |-> status, title |-> title, owner_id |-> owner_id,
     current_version_number |-> current_version_number]

\* output_path of _fill_docx: generated_dir/<form_id>/form_<form_id>[_v<version_id>]_<timestamp>.docx
\* with the timestamp strftime("%Y%m%d_%H%M%S") of the moment of the call
OutputPath(form_id, version_id, now) ==
    [form |-> form_id, version |-> version_id, timestamp |-> now, ext |-> "docx"]

\* docx_path.replace('.docx', '.pdf')
PdfPathOf(docx_path) == [docx_path EXCEPT !.ext = "pdf"]

\* what subprocess.run of the converter can do: the executable is missing, the run
\* times out, exits with an error, exits with 0 without writing, exits with 0
ConverterOutcomes == {"not_found", "timeout", "nonzero", "exit0_no_file", "exit0"}

NewProc(version_id) ==
    [pc |-> "start", version_id |-> version_id, form_data |-> <<>>,
     doc |-> EmptyDoc, flat |-> <<>>, idx |-> 0,
     docx_path |-> None, pdf_path |-> None, outcome |-> "none", returned |-> None]

GenFrame == UNCHANGED <<template, outfile, doc, schema, data, flat, pc, idx, handled, written, call>>

\* generate_documents up to the call of _fill_docx: the form, its template and the
\* version are looked up (the template row exists with the form: a foreign key)
GenLookup(p) ==
    /\ procs[p].pc = "start"
    /\ procs' = [procs EXCEPT ![p] =
          IF db.form = None THEN [@ EXCEPT !.pc = "raised"]
          ELSE IF procs[p].version_id # None /\ procs[p].version_id[1] \notin 1..Len(db.versions)
          THEN [@ EXCEPT !.pc = "raised"]
          ELSE [@ EXCEPT !.pc = "fill",
                         !.form_data = IF procs[p].version_id # None
                                       THEN db.versions[procs[p].version_id[1]].data_snapshot
                                       ELSE db.data]]
    /\ UNCHANGED <<db, files, clock>>
    /\ GenFrame

\* _fill_docx: the template is copied to output_path, the copy is opened and the
\* data flattened
GenOpen(p) ==
    /\ procs[p].pc = "fill"
    /\ \E path \in {OutputPath(1, procs[p].version_id, clock)} :
          /\ files' = files \cup {path}
          /\ procs' = [procs EXCEPT ![p] =
                [@ EXCEPT !.pc = "prepass", !.docx_path = Some(path), !.doc = template,
                          !.flat = FlattenDict(procs[p].form_data), !.idx = 1]]
    /\ UNCHANGED <<db, clock>>
    /\ GenFrame

\* _fill_docx: the next composite pre-pass
GenPrePass(p) ==
    /\ procs[p].pc = "prepass"
    /\ \E r \in {RunPass(procs[p].idx, procs[p].doc, procs[p].flat)} :
          procs' = [procs EXCEPT ![p] =
             [@ EXCEPT !.doc = r.doc,
                       !.pc = IF ~r.ok THEN "raised"
                              ELSE IF procs[p].idx = NumPasses THEN "loop" ELSE "prepass",
                       !.idx = IF r.ok /\ procs[p].idx < NumPasses THEN procs[p].idx + 1 ELSE 1]]
    /\ UNCHANGED <<db, files, clock>>
    /\ GenFrame

\* _fill_docx: the next iteration of the loop over flat_data
GenFillField(p) ==
    /\ procs[p].pc = "loop"
    /\ procs[p].idx <= Len(procs[p].flat)
    /\ \E r \in {FillField(procs[p].doc, schema, procs[p].flat[procs[p].idx])} :
          procs' = [procs EXCEPT ![p] =
             [@ EXCEPT !.doc = r.doc,
                       !.pc = IF r.ok THEN "loop" ELSE "raised",
                       !.idx = procs[p].idx + 1]]
    /\ UNCHANGED <<db, files, clock>>
    /\ GenFrame

\* _fill_docx: doc.save(output_path); return output_path
GenSave(p) ==
    /\ procs[p].pc = "loop"
    /\ procs[p].idx > Len(procs[p].flat)
    /\ procs' = [procs EXCEPT ![p] = [@ EXCEPT !.pc = "convert"]]
    /\ UNCHANGED <<db, files, clock>>
    /\ GenFrame

\* _convert_to_pdf without the os.path.exists test
GenConvertUnchecked(p) ==
    /\ procs[p].pc = "convert"
    /\ \E outcome \in ConverterOutcomes :
       \E pdf \in {PdfPathOf(procs[p].docx_path[1])} :
          /\ files' = IF outcome = "exit0" THEN files \cup {pdf} ELSE files
          /\ procs' = [procs EXCEPT ![p] =
                IF outcome \in {"exit0", "exit0_no_file"}
                THEN [@ EXCEPT !.pc = "commit", !.outcome = outcome, !.pdf_path = Some(pdf)]
                ELSE [@ EXCEPT !.pc = "raised", !.outcome = outcome]]
    /\ UNCHANGED <<db, clock>>
    /\ GenFrame

\* _convert_to_pdf: the converter runs; the path is returned when it exited with 0
\* and the file is there
GenConvert(p) ==
    /\ procs[p].pc = "convert"
    /\ \E outcome \in ConverterOutcomes :
       \E pdf \in {PdfPathOf(procs[p].docx_path[1])} :
          /\ files' = IF outcome = "exit0" THEN files \cup {pdf} ELSE files
          /\ procs' = [procs EXCEPT ![p] =
                IF outcome \in {"exit0", "exit0_no_file"} /\ pdf \in files'
                THEN [@ EXCEPT !.pc = "commit", !.outcome = outcome, !.pdf_path = Some(pdf)]
                ELSE [@ EXCEPT !.pc = "raised", !.outcome = outcome]]
    /\ UNCHANGED <<db, clock>>
    /\ GenFrame

\* generate_documents after the conversion: the paths are stored on the version
\* when a version_id was given, and returned
GenCommit(p) ==
    /\ procs[p].pc = "commit"
    /\ db' = IF procs[p].version_id = None THEN db
             ELSE [db EXCEPT !.versions[procs[p].version_id[1]] =
                      [@ EXCEPT !.generated_docx_path = procs[p].docx_path,
                                !.generated_pdf_path = procs[p].pdf_path]]
    /\ procs' = [procs EXCEPT ![p] =
          [@ EXCEPT !.pc = "returned", !.returned = Some(<<procs[p].docx_path[1], procs[p].pdf_path[1]>>)]]
    /\ UNCHANGED <<files, clock>>
    /\ GenFrame

\* a second passes
Tick ==
    /\ clock < MaxClock
    /\ clock' = clock + 1
    /\ UNCHANGED <<db, files, procs>>
    /\ GenFrame

\* the form data of the stored rows: a name, or a radiation answer that makes the
\* fill of a short template raise
GenerateData == {DataGroups[1], DataGroups[6]}

InitGenerate ==
    /\ template = FormDoc(2, 0)
    /\ schema = SchemaOf(<<PiNameField, ContactNameField, IntramuralField>>)
    /\ data = <<>>
    /\ outfile = NoFile
    /\ doc = EmptyDoc
    /\ flat = <<>>
    /\ pc = "idle"
    /\ idx = 0
    /\ handled = {}
    /\ written = {}
    /\ call = NoCall
    /\ \E has_form \in BOOLEAN, current \in GenerateData,
          snapshots \in TextsUpTo(GenerateData, 1) :
          db = [NoDb EXCEPT
                  !.form = IF has_form THEN Some(FormRow("draft", <<"a trial">>, 1, 1))
                           ELSE None,
                  !.data = current,
                  !.versions = [i \in 1..Len(snapshots) |-> Version(i, snapshots[i], "draft")]]
    /\ files = {}
    /\ clock = 0
    /\ procs \in [1..NumProcs -> {NewProc(None), NewProc(Some(1))}]

NextGenerate ==
    \/ \E p \in 1..NumProcs : GenLookup(p)
    \/ \E p \in 1..NumProcs : GenOpen(p)
    \/ \E p \in 1..NumProcs : GenPrePass(p)
    \/ \E p \in 1..NumProcs : GenFillField(p)
    \/ \E p \in 1..NumProcs : GenSave(p)
    \/ \E p \in 1..NumProcs : GenConvert(p)
    \/ \E p \in 1..NumProcs : GenCommit(p)
    \/ Tick

SpecGenerate == InitGenerate /\ [][NextGenerate]_vars


\* the invocation p is past a converter run that failed: the executable was not
\* found, the run timed out, exited with an error, or left no file behind
ConvertFailed(p) ==
    \/ procs[p].outcome \in {"not_found", "timeout", "nonzero"}
    \/ /\ procs[p].outcome = "exit0_no_file"
       /\ PdfPathOf(procs[p].docx_path[1]) \notin files

\* C16: _convert_to_pdf hands back a path only when the converter exited with 0 and
\* the file is there; when the conversion fails the invocation raises, returns no
\* paths, and the step leaves every version row as it was.
C16_PdfPathOnlyAfterSuccess ==
    /\ [](\A p \in 1..NumProcs :
            /\ procs[p].pdf_path # None
                  => /\ procs[p].outcome \in {"exit0", "exit0_no_file"}
                     /\ procs[p].pdf_path[1] \in files
            /\ procs[p].outcome # "none" /\ ConvertFailed(p)
                  => /\ procs[p].pc = "raised"
                     /\ procs[p].pdf_path = None
                     /\ procs[p].returned = None)
    /\ [][\A p \in 1..NumProcs :
            procs[p].pc = "convert" /\ procs'[p].pc = "raised" => db' = db]_vars

\* one invocation for a version raised because the converter left no file, the
\* version row has no paths; another invocation returned its two paths
C16_Witness ==
    \E p, q \in 1..NumProcs :
       /\ procs[p].pc = "raised"
       /\ procs[p].outcome = "exit0_no_file"
       /\ procs[p].version_id = Some(1)
       /\ db.versions[1].generated_pdf_path = None
       /\ procs[q].returned # None


\* C17: two invocations of generate_documents for the same form and version never
\* write to the same output file.
C17_OutputPathsDistinct ==
    \A p, q \in 1..NumProcs :
       /\ p # q
       /\ procs[p].version_id = procs[q].version_id
       /\ procs[p].docx_path # None
       /\ procs[q].docx_path # None
       => procs[p].docx_path # procs[q].docx_path


----------------------------------------------------------------------------
(* FormService and ReviewService: the operations on a form, its data, its   *)
(* versions, its review actions and its change events.  Every call is one   *)
(* transaction; the table of forms holds one form at a time.                *)

MaxEvents == 3
MaxVersions == 3
MaxChanges == 1

\* FormStatus
DRAFT == "draft"
IN_REVIEW == "in_review"
NEEDS_CHANGES == "needs_changes"
APPROVED == "approved"
LOCKED == "locked"
FormStatus == {DRAFT, IN_REVIEW, NEEDS_CHANGES, APPROVED, LOCKED}

\* a table in which an approved form can be returned to draft
TransitionsWithReopen ==
    [s \in FormStatus |->
        CASE s = DRAFT -> {IN_REVIEW}
          [] s = IN_REVIEW -> {NEEDS_CHANGES, APPROVED, DRAFT}
          [] s = NEEDS_CHANGES -> {IN_REVIEW, DRAFT}
          [] s = APPROVED -> {LOCKED, DRAFT}
          [] s = LOCKED -> {}]

\* ReviewService.TRANSITIONS
TRANSITIONS ==
    [s \in FormStatus |->
        CASE s = DRAFT -> {IN_REVIEW}
          [] s = IN_REVIEW -> {NEEDS_CHANGES, APPROVED, DRAFT}
          [] s = NEEDS_CHANGES -> {IN_REVIEW, DRAFT}
          [] s = APPROVED -> {LOCKED}
          [] s = LOCKED -> {}]

\* the statuses update_form_data and update_form_metadata refuse: locked only
LockedOnly == {LOCKED}

\* the statuses update_form_data and update_form_metadata refuse
NotEditable == {LOCKED, APPROVED}

\* the users: a researcher, a reviewer and an administrator
Users == 1..3
RoleOf(u) == <<"researcher", "reviewer", "admin">>[u]

\* a ChangeEvent row
ChangeEvent(user_id, field_id, old_value, new_value, action_type) ==
    [user_id |-> user_id, field_id |-> field_id, old_value |-> old_value,
     new_value |-> new_value, action_type |-> action_type]

SystemEvent(user_id, action_type) ==
    ChangeEvent(user_id, <<"_system">>, None, None, Some(action_type))

\* a ReviewAction row
ReviewAction(version_number, performed_by_id, action_type) ==
    [version |-> version_number, performed_by_id |-> performed_by_id,
     action_type |-> action_type]

\* a FieldChange of the request
FieldChange(field_id, new_value) == [field_id |-> field_id, new_value |-> new_value]

\* current_data[field_id] = new_value
DictSet(d, k, v) ==
    IF HasKey(d, k)
    THEN [i \in 1..Len(d) |-> IF d[i].k = k THEN Entry(k, v) ELSE d[i]]
    ELSE Append(d, Entry(k, v))

\* current_data.get(field_id)
DictGet(d, k) == IF HasKey(d, k) THEN Some(Get(d, k, EmptyStr)) ELSE None

\* the loop of update_form_data over the changes: the events it adds
RECURSIVE EventsOfChanges(_, _, _)
EventsOfChanges(d, changes, u) ==
    IF changes = <<>> THEN <<>>
    ELSE <<ChangeEvent(u, changes[1].field_id, DictGet(d, changes[1].field_id),
                       Some(changes[1].new_value), None)>>
         \o EventsOfChanges(DictSet(d, changes[1].field_id, changes[1].new_value),
                            Tail(changes), u)

\* the loop of update_form_data over the changes: the data it leaves
RECURSIVE ApplyChanges(_, _)
ApplyChanges(d, changes) ==
    IF changes = <<>> THEN d
    ELSE ApplyChanges(DictSet(d, changes[1].field_id, changes[1].new_value), Tail(changes))

\* the requests
WorkflowTitles == {<<"a trial">>, <<"b trial">>}
WorkflowChanges ==
    TextsUpTo({FieldChange(K("personnel", "pi_name"), S(n)) : n \in {"ada", "bob"}}, MaxChanges)

WorkflowFrame ==
    UNCHANGED <<template, outfile, doc, schema, data, flat, pc, idx, handled, written,
                files, clock, procs>>

\* the call raised an HTTPException of the given status (or found nothing and
\* returned None or False): the session is closed without a commit
Fails(op, u, result) ==
    /\ call' = [op |-> op, user |-> u, result |-> result]
    /\ UNCHANGED db
    /\ WorkflowFrame

Commits(op, u, newdb) ==
    /\ call' = [op |-> op, user |-> u, result |-> "ok"]
    /\ db' = newdb
    /\ WorkflowFrame

\* owner or admin
MayEdit(u) == db.form[1].owner_id = u \/ RoleOf(u) = "admin"

\* FormService.create_form_instance
CreateFormInstance(u, title, has_template) ==
    /\ db.form = None
    /\ IF ~has_template THEN Fails("create_form_instance", u, "404")
       ELSE Commits("create_form_instance", u,
               [db EXCEPT !.form = Some(FormRow(DRAFT, title, u, 1)),
                          !.data = <<>>,
                          !.versions = <<Version(1, <<>>, DRAFT)>>,
                          !.events = Append(db.events, SystemEvent(u, "create"))])

\* FormService.update_form_metadata
UpdateFormMetadata(u, title) ==
    IF db.form = None THEN Fails("update_form_metadata", u, "none")
    ELSE IF ~MayEdit(u) THEN Fails("update_form_metadata", u, "403")
    ELSE IF db.form[1].status \in NotEditable THEN Fails("update_form_metadata", u, "400")
    ELSE IF title = None THEN Commits("update_form_metadata", u, db)
    ELSE /\ Len(db.events) < MaxEvents
         /\ Commits("update_form_metadata", u,
               [db EXCEPT !.form = Some([db.form[1] EXCEPT !.title = title[1]]),
                          !.events = Append(db.events,
                              ChangeEvent(u, <<"_title">>, Some(db.form[1].title), title,
                                          Some("update")))])

\* FormService.update_form_data
UpdateFormData(u, changes) ==
    IF db.form = None THEN Fails("update_form_data", u, "404")
    ELSE IF ~MayEdit(u) THEN Fails("update_form_data", u, "403")
    ELSE IF db.form[1].status \in NotEditable THEN Fails("update_form_data", u, "400")
    ELSE /\ Len(db.events) + Len(changes) <= MaxEvents
         /\ Commits("update_form_data", u,
               [db EXCEPT !.data = ApplyChanges(db.data, changes),
                          !.events = db.events \o EventsOfChanges(db.data, changes, u)])

\* create_version numbering the version without advancing the counter of the form
CreateVersionSameNumber(u) ==
    IF db.form = None THEN Fails("create_version", u, "404")
    ELSE IF ~MayEdit(u) THEN Fails("create_version", u, "403")
    ELSE /\ Len(db.events) < MaxEvents
         /\ Len(db.versions) < MaxVersions
         /\ Commits("create_version", u,
               [db EXCEPT !.versions = Append(db.versions,
                              Version(db.form[1].current_version_number + 1, db.data,
                                      db.form[1].status)),
                          !.events = Append(db.events, SystemEvent(u, "version_create"))])

\* FormService.create_version
CreateVersion(u) ==
    IF db.form = None THEN Fails("create_version", u, "404")
    ELSE IF ~MayEdit(u) THEN Fails("create_version", u, "403")
    ELSE /\ Len(db.events) < MaxEvents
         /\ Len(db.versions) < MaxVersions
         /\ Commits("create_version", u,
               [db EXCEPT !.form = Some([db.form[1] EXCEPT
                                           !.current_version_number = @ + 1]),
                          !.versions = Append(db.versions,
                              Version(db.form[1].current_version_number + 1, db.data,
                                      db.form[1].status)),
                          !.events = Append(db.events, SystemEvent(u, "version_create"))])

\* delete_form_instance without the test of the status
DeleteFormInstanceAnyStatus(u, fk_enforced) ==
    IF db.form = None THEN Fails("delete_form_instance", u, "none")
    ELSE IF ~MayEdit(u) THEN Fails("delete_form_instance", u, "403")
    ELSE IF fk_enforced /\ db.actions # <<>> THEN Fails("delete_form_instance", u, "500")
    ELSE Commits("delete_form_instance", u,
            [db EXCEPT !.events = <<>>, !.versions = <<>>, !.data = <<>>, !.form = None])

\* FormService.delete_form_instance: the change events, the versions and the data of
\* the form are deleted, then the form.  The review actions refer to the form and
\* its versions: where foreign keys are enforced the commit fails when there are any
DeleteFormInstance(u, fk_enforced) ==
    IF db.form = None THEN Fails("delete_form_instance", u, "none")
    ELSE IF ~MayEdit(u) THEN Fails("delete_form_instance", u, "403")
    ELSE IF db.form[1].status # DRAFT THEN Fails("delete_form_instance", u, "400")
    ELSE IF fk_enforced /\ db.actions # <<>> THEN Fails("delete_form_instance", u, "500")
    ELSE Commits("delete_form_instance", u,
            [db EXCEPT !.events = <<>>, !.versions = <<>>, !.data = <<>>, !.form = None])

\* submit_for_review without the test of the owner
SubmitForReviewByAnyone(u) ==
    IF db.form = None THEN Fails("submit_for_review", u, "404")
    ELSE IF IN_REVIEW \notin TRANSITIONS[db.form[1].status]
    THEN Fails("submit_for_review", u, "400")
    ELSE /\ Len(db.events) < MaxEvents
         /\ Len(db.actions) < MaxEvents
         /\ Len(db.versions) < MaxVersions
         /\ Commits("submit_for_review", u,
               [db EXCEPT !.form = Some([db.form[1] EXCEPT
                                           !.status = IN_REVIEW,
                                           !.current_version_number = @ + 1]),
                          !.versions = Append(db.versions,
                              Version(db.form[1].current_version_number + 1, db.data,
                                      IN_REVIEW)),
                          !.actions = Append(db.actions,
                              ReviewAction(db.form[1].current_version_number + 1, u,
                                           "submit_for_review")),
                          !.events = Append(db.events, SystemEvent(u, "submit_for_review"))])

\* submit_for_review taking the snapshot of the latest version instead of the data
SubmitForReviewStaleSnapshot(u) ==
    IF db.form = None THEN Fails("submit_for_review", u, "404")
    ELSE IF db.form[1].owner_id # u THEN Fails("submit_for_review", u, "403")
    ELSE IF IN_REVIEW \notin TRANSITIONS[db.form[1].status]
    THEN Fails("submit_for_review", u, "400")
    ELSE /\ Len(db.events) < MaxEvents
         /\ Len(db.actions) < MaxEvents
         /\ Len(db.versions) < MaxVersions
         /\ Commits("submit_for_review", u,
               [db EXCEPT !.form = Some([db.form[1] EXCEPT
                                           !.status = IN_REVIEW,
                                           !.current_version_number = @ + 1]),
                          !.versions = Append(db.versions,
                              Version(db.form[1].current_version_number + 1,
                                      db.versions[Len(db.versions)].data_snapshot,
                                      IN_REVIEW)),
                          !.actions = Append(db.actions,
                              ReviewAction(db.form[1].current_version_number + 1, u,
                                           "submit_for_review")),
                          !.events = Append(db.events, SystemEvent(u, "submit_for_review"))])

\* ReviewService.submit_for_review
SubmitForReview(u) ==
    IF db.form = None THEN Fails("submit_for_review", u, "404")
    ELSE IF db.form[1].owner_id # u THEN Fails("submit_for_review", u, "403")
    ELSE IF IN_REVIEW \notin TRANSITIONS[db.form[1].status]
    THEN Fails("submit_for_review", u, "400")
    ELSE /\ Len(db.events) < MaxEvents
         /\ Len(db.actions) < MaxEvents
         /\ Len(db.versions) < MaxVersions
         /\ Commits("submit_for_review", u,
               [db EXCEPT !.form = Some([db.form[1] EXCEPT
                                           !.status = IN_REVIEW,
                                           !.current_version_number = @ + 1]),
                          !.versions = Append(db.versions,
                              Version(db.form[1].current_version_number + 1, db.data,
                                      IN_REVIEW)),
                          !.actions = Append(db.actions,
                              ReviewAction(db.form[1].current_version_number + 1, u,
                                           "submit_for_review")),
                          !.events = Append(db.events, SystemEvent(u, "submit_for_review"))])

\* ReviewService.request_changes
RequestChanges(u) ==
    IF db.form = None THEN Fails("request_changes", u, "404")
    ELSE IF RoleOf(u) \notin {"reviewer", "admin"} THEN Fails("request_changes", u, "403")
    ELSE IF NEEDS_CHANGES \notin TRANSITIONS[db.form[1].status] THEN Fails("request_changes", u, "400")
    ELSE /\ Len(db.events) < MaxEvents
         /\ Len(db.actions) < MaxEvents
         /\ Commits("request_changes", u,
               [db EXCEPT !.form = Some([db.form[1] EXCEPT !.status = NEEDS_CHANGES]),
                          !.actions = Append(db.actions,
                              ReviewAction(db.form[1].current_version_number, u, "request_changes")),
                          !.events = Append(db.events, SystemEvent(u, "request_changes"))])

\* ReviewService.approve_form
ApproveForm(u) ==
    IF db.form = None THEN Fails("approve_form", u, "404")
    ELSE IF RoleOf(u) \notin {"reviewer", "admin"} THEN Fails("approve_form", u, "403")
    ELSE IF APPROVED \notin TRANSITIONS[db.form[1].status] THEN Fails("approve_form", u, "400")
    ELSE /\ Len(db.events) < MaxEvents
         /\ Len(db.actions) < MaxEvents
         /\ Commits("approve_form", u,
               [db EXCEPT !.form = Some([db.form[1] EXCEPT !.status = APPROVED]),
                          !.actions = Append(db.actions,
                              ReviewAction(db.form[1].current_version_number, u, "approve")),
                          !.events = Append(db.events, SystemEvent(u, "approve"))])

\* ReviewService.return_to_draft
ReturnToDraft(u) ==
    IF db.form = None THEN Fails("return_to_draft", u, "404")
    ELSE IF db.form[1].owner_id # u /\ RoleOf(u) \notin {"reviewer", "admin"}
    THEN Fails("return_to_draft", u, "403")
    ELSE IF DRAFT \notin TRANSITIONS[db.form[1].status]
    THEN Fails("return_to_draft", u, "400")
    ELSE /\ Len(db.events) < MaxEvents
         /\ Commits("return_to_draft", u,
               [db EXCEPT !.form = Some([db.form[1] EXCEPT !.status = DRAFT]),
                          !.events = Append(db.events, SystemEvent(u, "return_to_draft"))])

\* the rows at the start: no form yet, or a form of any status stored earlier by
\* its owner, with its first version and its creation event
InitWorkflow ==
    /\ template = EmptyDoc
    /\ schema = EmptySchema
    /\ data = <<>>
    /\ outfile = NoFile
    /\ doc = EmptyDoc
    /\ flat = <<>>
    /\ pc = "idle"
    /\ idx = 0
    /\ handled = {}
    /\ written = {}
    /\ call = NoCall
    /\ files = {}
    /\ clock = 0
    /\ procs = <<>>
    /\ \/ db = NoDb
       \/ \E s \in FormStatus :
             db = [NoDb EXCEPT !.form = Some(FormRow(s, <<"a trial">>, 1, 1)),
                               !.versions = <<Version(1, <<>>, DRAFT)>>,
                               !.events = <<SystemEvent(1, "create")>>]

NextWorkflow ==
    \/ \E u \in Users, title \in WorkflowTitles, has_template \in BOOLEAN :
          CreateFormInstance(u, title, has_template)
    \/ \E u \in Users, title \in {None} \cup {Some(t) : t \in WorkflowTitles} :
          UpdateFormMetadata(u, title)
    \/ \E u \in Users, changes \in WorkflowChanges : UpdateFormData(u, changes)
    \/ \E u \in Users : CreateVersion(u)
    \/ \E u \in Users, fk_enforced \in BOOLEAN : DeleteFormInstance(u, fk_enforced)
    \/ \E u \in Users : SubmitForReview(u)
    \/ \E u \in Users : RequestChanges(u)
    \/ \E u \in Users : ApproveForm(u)
    \/ \E u \in Users : ReturnToDraft(u)

SpecWorkflow == InitWorkflow /\ [][NextWorkflow]_vars


\* the status a review call moves the form to
TargetOf(op) ==
    CASE op = "submit_for_review" -> IN_REVIEW
      [] op = "request_changes" -> NEEDS_CHANGES
      [] op = "approve_form" -> APPROVED
      [] op = "return_to_draft" -> DRAFT

ReviewOps == {"submit_for_review", "request_changes", "approve_form", "return_to_draft"}

\* C18: every change of the form's status is one of DRAFT->IN_REVIEW,
\* IN_REVIEW->{NEEDS_CHANGES, APPROVED, DRAFT}, NEEDS_CHANGES->{IN_REVIEW, DRAFT},
\* APPROVED->LOCKED; a review call whose target is not allowed from the current
\* status fails with an error and leaves the form, its versions, its review actions
\* and its change events as they were.
C18_TransitionsFollowTable ==
    [][/\ db.form # None /\ db'.form # None /\ db'.form[1].status # db.form[1].status
          => <<db.form[1].status, db'.form[1].status>> \in
                {<<DRAFT, IN_REVIEW>>, <<IN_REVIEW, NEEDS_CHANGES>>, <<IN_REVIEW, APPROVED>>,
                 <<IN_REVIEW, DRAFT>>, <<NEEDS_CHANGES, IN_REVIEW>>, <<NEEDS_CHANGES, DRAFT>>,
                 <<APPROVED, LOCKED>>}
       /\ call'.op \in ReviewOps /\ db.form # None
          /\ <<db.form[1].status, TargetOf(call'.op)>> \notin
                {<<DRAFT, IN_REVIEW>>, <<IN_REVIEW, NEEDS_CHANGES>>, <<IN_REVIEW, APPROVED>>,
                 <<IN_REVIEW, DRAFT>>, <<NEEDS_CHANGES, IN_REVIEW>>, <<NEEDS_CHANGES, DRAFT>>,
                 <<APPROVED, LOCKED>>}
          => /\ call'.result \in {"400", "403"}
             /\ db' = db]_vars

\* the form was submitted and sent back for changes, and the approval then asked
\* for was refused for the status
C18_Witness ==
    /\ call.op = "approve_form"
    /\ call.result = "400"
    /\ db.form # None
    /\ db.form[1].status = NEEDS_CHANGES
    /\ Len(db.actions) = 2
    /\ db.actions[2].action_type = "request_changes"


\* C19: while the form is approved or locked, update_form_data and
\* update_form_metadata fail with an error and leave the form's data, its title and
\* its change events as they were.
C19_ApprovedNotEditable ==
    [][/\ db.form # None
       /\ db.form[1].status \in {APPROVED, LOCKED}
       /\ call'.op \in {"update_form_data", "update_form_metadata"}
       => /\ call'.result \in {"400", "403"}
          /\ db'.data = db.data
          /\ db'.form = db.form
          /\ db'.events = db.events]_vars

\* the form was approved by a reviewer and an update of its data by the owner or
\* an administrator was then refused for the status
C19_Witness ==
    /\ call.op = "update_form_data"
    /\ call.result = "400"
    /\ db.form # None
    /\ db.form[1].status = APPROVED
    /\ db.actions # <<>>
    /\ db.actions[Len(db.actions)].action_type = "approve"


\* C20: the change events of a form are append-only: no call of the services
\* deletes or modifies an event once recorded.
C20_EventsAppendOnly ==
    [][/\ Len(db'.events) >= Len(db.events)
       /\ SubSeq(db'.events, 1, Len(db.events)) = db.events]_vars


----------------------------------------------------------------------------
(* AuditService.reconstruct_form_state: the change events of the form that  *)
(* are not system events, replayed in the order of their timestamps.        *)

\* del state[field_id]
DictDel(d, k) == SelectSeq(d, LAMBDA e : e.k # k)

\* the replay loop over the events up to target_timestamp
RECURSIVE Replay(_, _)
Replay(state, events) ==
    IF events = <<>> THEN state
    ELSE Replay(IF events[1].new_value # None
                THEN DictSet(state, events[1].field_id, events[1].new_value[1])
                ELSE DictDel(state, events[1].field_id),
                Tail(events))

\* reconstruct_form_state at a timestamp not earlier than the last event
ReconstructFormState(events) ==
    Replay(<<>>, SelectSeq(events, LAMBDA e : e.field_id # <<"_system">>))

\* the (key, value) pairs of a dict
ItemsOf(d) == {d[i] : i \in 1..Len(d)}

\* C21: replaying the change events of a form gives its current field data: the
\* same keys with the same values.
C21_ReplayGivesCurrentData ==
    db.form # None => ItemsOf(ReconstructFormState(db.events)) = ItemsOf(db.data)


C23_WorkflowAuthorisation ==
    [][/\ /\ db.form # None /\ db'.form # None
          /\ db'.form[1].status # db.form[1].status
          => /\ db'.form[1].status = IN_REVIEW
                => /\ call'.op = "submit_for_review"
                   /\ call'.user = db.form[1].owner_id
             /\ db'.form[1].status = NEEDS_CHANGES
                => /\ call'.op = "request_changes"
                   /\ RoleOf(call'.user) \in {"reviewer", "admin"}
             /\ db'.form[1].status = APPROVED
                => /\ call'.op = "approve_form"
                   /\ RoleOf(call'.user) \in {"reviewer", "admin"}
       /\ /\ db.form # None
          /\ \/ call'.op = "submit_for_review" /\ call'.user # db.form[1].owner_id
             \/ /\ call'.op \in {"request_changes", "approve_form"}
                /\ RoleOf(call'.user) \notin {"reviewer", "admin"}
          => /\ call'.result = "403"
             /\ db' = db]_vars

\* the owner, a researcher, asked for the approval of the form under review and was
\* refused
C23_Witness ==
    /\ call.op = "approve_form"
    /\ call.result = "403"
    /\ db.form # None
    /\ call.user = db.form[1].owner_id
    /\ db.form[1].status = IN_REVIEW
    /\ db.actions # <<>>


----------------------------------------------------------------------------
(* Specification SpecPaired: _fill_docx on a document of the paired No/Yes  *)
(* questions, for every state of the two checkboxes in the template and     *)
(* every answer.                                                            *)

\* the states of a legacy checkbox in a template: <<w:default, w:checked>>
BoxStates == {<<"0", "none">>, <<"1", "none">>, <<"0", "1">>, <<"0", "0">>}

\* the paragraph of a question: a checkbox, 'No', a checkbox, 'Yes: ...'
QuestionPara(b1, b2, t) ==
    <<BoxRun(b1[1], b1[2]), TextRun(<<"No", " ">>),
      BoxRun(b2[1], b2[2]), TextRun(<<"Yes", ":", " ">> \o t)>>

\* the questions of the form, each with checkboxes in the states b1 and b2
PairedDoc(b1, b2) ==
    [paras |->
       << P(<<"is this a", " ", "student project", "?">>),
          <<TextRun(<<" ">>), BoxRun(b1[1], b1[2]), TextRun(<<"No", " ", " ">>),
            BoxRun(b2[1], b2[2]), TextRun(<<"Yes">>)>>,
          QuestionPara(b1, b2, <<"letter of approval from", " ", "SCRO">>),
          QuestionPara(b1, b2, <<"letter of approval from", " ", "IBC">>),
          QuestionPara(b1, b2, <<"recombinant or synthetic">>),
          QuestionPara(b1, b2, <<"carcinogens">>),
          QuestionPara(b1, b2, <<"phs policy">>),
          QuestionPara(b1, b2, <<"flyers", " ", "attach copy">>),
          QuestionPara(b1, b2, <<"verbal", " ", "script">>),
          <<BoxRun(b1[1], b1[2]), TextRun(<<"No", " ">>), BoxRun(b2[1], b2[2]),
            TextRun(<<"Yes", ",", " ", "describe", ":">>), Placeholder>> >>,
     tables |-> <<>>]

\* the paired questions: <<key of the data map, paragraph test>>
PairedQuestions ==
    << <<K("study", "is_student_project"), "no_yes">>,
       <<K("study", "scro_required"), "scro">>,
       <<K("study", "ibc_infectious"), "ibc_infectious">>,
       <<K("study", "ibc_recombinant"), "ibc_recombinant">>,
       <<K("study", "ibc_hazardous"), "ibc_hazardous">>,
       <<K("study", "phs_submission"), "phs">>,
       <<K("recruitment", "flyers_used"), "flyers">>,
       <<K("recruitment", "verbal_used"), "verbal">>,
       <<K("recruitment", "electronic_used"), "electronic">> >>

PairedAnswers == {S("no"), S("yes"), S("unsure")}

InitPaired ==
    /\ \E b1 \in BoxStates, b2 \in BoxStates : template = PairedDoc(b1, b2)
    /\ schema = EmptySchema
    /\ \E a \in PairedAnswers, b \in PairedAnswers :
          data = [i \in 1..Len(PairedQuestions) |->
                    Entry(PairedQuestions[i][1], IF i % 2 = 1 THEN a ELSE b)]
    /\ outfile = NoFile
    /\ doc = EmptyDoc
    /\ flat = <<>>
    /\ pc = "idle"
    /\ idx = 0
    /\ handled = {}
    /\ written = {}
    /\ call = NoCall
    /\ ServicesIdle

SpecPaired == InitPaired /\ [][Next]_vars

\* the state Word shows for a form checkbox: w:checked when present, else w:default
BoxChecked(box) == box.has /\ (box.chk = "1" \/ (box.chk = "none" /\ box.dflt = "1"))

\* the n-th checkbox of a paragraph is checked
NthBoxChecked(para, n) ==
    \E i \in 1..Len(para) :
       /\ para[i].box.has
       /\ Cardinality({j \in 1..(i - 1) : para[j].box.has}) = n - 1
       /\ BoxChecked(para[i].box)

\* the question q was answered and its paragraph located: the first checkbox is
\* checked exactly for 'no' and the second exactly for 'yes'
PairFollowsAnswer(d, fl, q) ==
    LET v == Get(fl, q[1], EmptyStr)
        i == FirstPara(d.paras, q[2])
    IN Truthy(v) /\ i # 0
          => /\ NthBoxChecked(d.paras[i], 1) <=> Eq(v, <<"no">>)
             /\ NthBoxChecked(d.paras[i], 2) <=> Eq(v, <<"yes">>)
             /\ ~(NthBoxChecked(d.paras[i], 1) /\ NthBoxChecked(d.paras[i], 2))

\* C24: after the fill, for every paired No/Yes question that was answered, the
\* first checkbox of its paragraph is checked if and only if the value is 'no', the
\* second if and only if it is 'yes', and never both, whatever the state of the two
\* checkboxes in the template.
C24_PairFollowsAnswer ==
    pc = "done" => \A n \in 1..Len(PairedQuestions) :
                      PairFollowsAnswer(outfile.doc, flat, PairedQuestions[n])


\* C25: a successful submit_for_review leaves the form IN_REVIEW with
\* current_version_number one more than before, a version of that number whose
\* data_snapshot is the form's field data, and a new review action that refers to
\* that version.
C25_SubmitSnapshotsData ==
    [][call'.op = "submit_for_review" /\ call'.result = "ok"
       => /\ db'.form[1].status = IN_REVIEW
          /\ db'.form[1].current_version_number = db.form[1].current_version_number + 1
          /\ db'.data = db.data
          /\ \E i \in 1..Len(db'.versions) :
                /\ db'.versions[i].version_number = db'.form[1].current_version_number
                /\ db'.versions[i].data_snapshot = db.data
          /\ Len(db'.actions) = Len(db.actions) + 1
          /\ db'.actions[Len(db'.actions)].action_type = "submit_for_review"
          /\ db'.actions[Len(db'.actions)].version = db'.form[1].current_version_number]_vars

\* the data was changed after the latest version was taken, and the form was then
\* submitted
C25_Witness ==
    /\ call.op = "submit_for_review"
    /\ call.result = "ok"
    /\ db.data # <<>>
    /\ Len(db.versions) >= 2
    /\ db.versions[Len(db.versions) - 1].data_snapshot # db.data
    /\ db.versions[Len(db.versions)].data_snapshot = db.data

\* C28: the version numbers of the versions of a form are exactly
\* 1..current_version_number, each once.
C28_VersionNumbersContiguous ==
    db.form # None
       => /\ Len(db.versions) = db.form[1].current_version_number
          /\ \A n \in 1..db.form[1].current_version_number :
                Cardinality({i \in 1..Len(db.versions) : db.versions[i].version_number = n}) = 1

\* a form with its initial version, a version made by create_version and a version
\* made by submit_for_review
C28_Witness ==
    /\ db.form # None
    /\ db.form[1].current_version_number = 3
    /\ \E i, j \in 1..Len(db.events) :
          /\ db.events[i].action_type = Some("version_create")
          /\ db.events[j].action_type = Some("submit_for_review")


\* the text of every paragraph and of every table cell of a document
AllTexts(d) ==
    [paras |-> [i \in 1..Len(d.paras) |-> ParaText(d.paras[i])],
     tables |-> [t \in 1..Len(d.tables) |->
                   [r \in 1..Len(d.tables[t].rows) |->
                      [c \in 1..Len(d.tables[t].rows[r]) |->
                         CellText(d.tables[t].rows[r][c])]]]]

\* C26: the fill with the data map {} ends, and every paragraph and every table
\* cell of the document written has the text it has in the template.
C26_EmptyDataChangesNothing ==
    data = <<>> => /\ pc # "raised"
                   /\ pc = "done" => AllTexts(outfile.doc) = AllTexts(template)


----------------------------------------------------------------------------
(* A data table through extraction and fill: the template holds one table  *)
(* of a header row and a data row, the schema is the one                   *)
(* extract_schema_from_docx returns for it, and the data hold row records  *)
(* keyed by the column ids 'col_j'.                                        *)

MaxColumns == 3
MaxRowRecords == 2

HeaderName == <<"N","a","m","e">>
HeaderRole == <<"R","o","l","e">>
HeaderSite == <<"S","i","t","e">>

\* the texts a header cell may hold; <<>> is an empty header cell
HeaderTexts == {<<>>, HeaderName, HeaderRole, HeaderSite}

\* a cell of one paragraph with the text t
TextCell(t) == <<P(t)>>

\* a table of the header row h and one empty data row
HeaderTable(h) ==
    Table(Len(h), <<[j \in 1..Len(h) |-> TextCell(h[j])],
                    [j \in 1..Len(h) |-> NewCell]>>)

\* the id _extract_table_fields gives the field of table 0 outside any section
TableFieldId == SecGeneral \o <<".", "t","a","b","l","e","_", Numeral(0)>>

\* the value row record r holds under the column id 'col_j'
RecordValue(r, j) == <<"r", Numeral(r), "v", Numeral(j)>>

\* row record r: a value under every column id 'col_0' .. 'col_{MaxColumns-1}'
RowRecord(r) ==
    RowDict([c \in {DefaultColumnIds[j] : j \in 1..MaxColumns} |->
                RecordValue(r, (CHOOSE j \in 1..MaxColumns : DefaultColumnIds[j] = c) - 1)])

InitColumns ==
    /\ \E nc \in 2..MaxColumns : \E h \in [1..nc -> HeaderTexts] :
          template = [paras |-> <<>>, tables |-> <<HeaderTable(h)>>]
    /\ \E n \in 1..MaxRowRecords :
          data = <<Entry(TableFieldId, RowsV([r \in 1..n |-> RowRecord(r)]))>>
    /\ schema = EmptySchema
    /\ outfile = NoFile
    /\ doc = EmptyDoc
    /\ flat = <<>>
    /\ pc = "upload"
    /\ idx = 0
    /\ handled = {}
    /\ written = {}
    /\ call = NoCall
    /\ ServicesIdle

SpecColumns == InitColumns /\ [][NextRoundTrip]_vars

\* the physical column the id 'col_j' names
ColumnOfId(id) == (CHOOSE j \in 1..Len(DefaultColumnIds) : DefaultColumnIds[j] = id) - 1

\* the extracted repeatable field of the table, when the table is a data table
IsExtractedTableField(f) ==
    /\ f.type = "repeatable"
    /\ f.id = TableFieldId
    /\ f.repeatable_config.column_mapping = None

\* C27: after the fill of a repeatable field produced by _extract_table_fields,
\* the value each row record holds under column id 'col_j' is the text of physical
\* cell j of the row it was written to, also when header cells are empty.
C27_ColumnsLineUp ==
    pc = "done" =>
        \A i \in 1..Len(schema.fields) :
            IsExtractedTableField(schema.fields[i]) =>
                \A k \in 1..Len(schema.fields[i].repeatable_config.columns) :
                    \A r \in 1..Len(data[1].v.l) :
                        LET id == schema.fields[i].repeatable_config.columns[k].id[1]
                            j == ColumnOfId(id)
                        IN CellText(outfile.doc.tables[1].rows[r + 1][j + 1])
                             = data[1].v.l[r].m[id]

============================================================================
